---- MODULE Spec2Model ----
(***************************************************************************)
(* Model of the currency-convertor cloud function: tier snapping           *)
(* (tier_snapper.py), price conversion (price_converter.py), the price     *)
(* stability gate (price_stability.py) and the handler that chains them    *)
(* over the Price Matrix sheet (main.py, sheets_client.py).                 *)
(*                                                                         *)
(* Amounts are exact decimals counted in ticks of 1/400 of a currency unit *)
(* (a quarter of a cent), so that sub-cent raw conversions exist and the   *)
(* largest curated tier (VND 4,999,000) still fits a 32-bit integer.       *)
(* Python's binary floating point noise is not modelled: a + 0.10 is exact.*)
(* Optional[float] values are sequences: << >> is None, <<v>> is v.        *)
(***************************************************************************)
EXTENDS Integers, Sequences, FiniteSets, TLC

VARIABLES priceMatrix, ratesLog, applePricingMap, published, run, args, ret, pc

vars == <<priceMatrix, ratesLog, applePricingMap, published, run, args, ret, pc>>

-----------------------------------------------------------------------------
(* Numbers *)

Tick == 4 * 100

Cent == Tick \div 100

\* x whole currency units, in ticks
U(x) == x * Tick

\* x cents, in ticks
C(x) == x * Cent

None == << >>

\* the member of a one-element set: The({e : x \in {v}}) is e with x standing for
\* the value of v, which is computed once however often e uses it
The(S) == CHOOSE x \in S : TRUE

Some(v) == <<v>>

Min(a, b) == IF a <= b THEN a ELSE b

Abs(a) == IF a < 0 THEN 0 - a ELSE a

\* round-half-even of x to a multiple of m (Python round)
RoundTo(x, m) ==
    LET q == x \div m
        r == x % m
    IN  IF 2 * r < m THEN q * m
        ELSE IF 2 * r > m THEN (q + 1) * m
        ELSE IF q % 2 = 0 THEN q * m ELSE (q + 1) * m

\* round(x, 2)
Round2(x) == RoundTo(x, Cent)

\* round(x, 1)
Round1(x) == RoundTo(x, 10 * Cent)

\* round(x)
Round0(x) == RoundTo(x, Tick)

\* math.ceil(x / m) * m for a step m given in ticks
CeilTo(x, m) == ((x + m - 1) \div m) * m

\* int(x) of a non-negative amount, in whole units
IntPart(x) == x \div Tick

\* abs(a - b) < 0.001
Near(a, b) == Abs(a - b) * 1000 < Tick

-----------------------------------------------------------------------------
(* Exact fractions n/d (d > 0) for the divisions of the tax and fee arithmetic *)

RECURSIVE Gcd(_, _)
Gcd(a, b) == IF b = 0 THEN a ELSE Gcd(b, a % b)

Rat(n, d) == LET g == Gcd(Abs(n), d) IN [n |-> n \div g, d |-> d \div g]

Whole(x) == [n |-> x, d |-> 1]

RMul(a, b) ==
    LET g1 == Gcd(Abs(a.n), b.d)
        g2 == Gcd(Abs(b.n), a.d)
    IN  [n |-> (a.n \div g1) * (b.n \div g2), d |-> (a.d \div g2) * (b.d \div g1)]

\* a / b for b > 0
RDiv(a, b) == RMul(a, [n |-> b.d, d |-> b.n])

RAdd(a, b) ==
    LET g == Gcd(a.d, b.d)
    IN  Rat(a.n * (b.d \div g) + b.n * (a.d \div g), (a.d \div g) * b.d)

RSub(a, b) == RAdd(a, [n |-> 0 - b.n, d |-> b.d])

\* round-half-even of the fraction a to a multiple of m
RRound(a, m) ==
    LET den == a.d * m
        q == a.n \div den
        r == a.n % den
    IN  IF 2 * r < den THEN q * m
        ELSE IF 2 * r > den THEN (q + 1) * m
        ELSE IF q % 2 = 0 THEN q * m ELSE (q + 1) * m

-----------------------------------------------------------------------------
(* tier_snapper.generate_granular_tiers *)

max_iterations == 10000

\* loop body of the branch max_price < 1
StepSubUnit(current) ==
    IF Near(current, C(90)) THEN C(95)
    ELSE IF Near(current, C(95)) THEN C(99)
    ELSE IF Near(current, C(99)) THEN U(1)
    ELSE IF current < C(90) THEN current + C(10)
    ELSE IF current < U(2)
         THEN IF Near(current, Round0(current)) THEN current + C(9)
              ELSE current + C(10)
    ELSE current + C(10)

\* loop body of the branch max_price < 100
StepDecimal(current) ==
    IF Near(current, C(89)) THEN C(90)
    ELSE IF Near(current, C(90)) THEN C(95)
    ELSE IF Near(current, C(95)) THEN C(99)
    ELSE IF Near(current, C(99)) THEN U(1)
    ELSE IF current < C(89) THEN current + C(10)
    ELSE IF current < U(10)
         THEN IF Near(current, Round0(current)) THEN current + C(9)
              ELSE current + C(10)
    ELSE IF Near(current, Round0(current)) THEN current + C(90)
         ELSE Round0(current) + C(90)

\* 9, 10, 15, 19, 20, ... : the last digit decides the step
StepLastDigit(current) ==
    LET last_digit == IntPart(current) % 10
    IN  IF last_digit = 9 THEN current + U(1)
        ELSE IF last_digit = 0 THEN current + U(5)
        ELSE IF last_digit = 5 THEN current + U(4)
        ELSE current + U(1)

\* 100, 150, 199, 200, ...
StepLastTwo(current) ==
    LET last_two == IntPart(current) % 100
    IN  IF last_two = 99 THEN current + U(1)
        ELSE IF last_two = 0 THEN current + U(50)
        ELSE IF last_two = 50 THEN current + U(49)
        ELSE current + U(1)

\* 1000, 1500, 1900, 2000, ...
StepLastThree(current) ==
    LET last_three == IntPart(current) % 1000
    IN  IF last_three = 900 THEN current + U(100)
        ELSE IF last_three = 0 THEN current + U(500)
        ELSE IF last_three = 500 THEN current + U(400)
        ELSE current + U(10)

\* 10000, 15000, 19000, 20000, ...
StepLastFour(current) ==
    LET last_four == IntPart(current) % 10000
    IN  IF last_four = 9000 THEN current + U(1000)
        ELSE IF last_four = 0 THEN current + U(5000)
        ELSE IF last_four = 5000 THEN current + U(4000)
        ELSE current + U(100)

\* loop body of the branch max_price < 1000
StepHundreds(current) ==
    IF current < U(100) THEN StepLastDigit(current) ELSE StepLastTwo(current)

\* loop body of the branch max_price < 10000
StepThousands(current) ==
    IF current < U(100) THEN StepLastDigit(current)
    ELSE IF current < U(1000) THEN StepLastTwo(current)
    ELSE StepLastThree(current)

\* loop body of the branch max_price >= 10000
StepLarge(current) ==
    IF current < U(100) THEN StepLastDigit(current)
    ELSE IF current < U(1000) THEN StepLastTwo(current)
    ELSE IF current < U(10000) THEN StepLastThree(current)
    ELSE StepLastFour(current)

\* the branch of generate_granular_tiers taken for max_price
Branch(max_price) ==
    IF max_price < U(1) THEN "subunit"
    ELSE IF max_price < U(100) THEN "decimal"
    ELSE IF max_price < U(1000) THEN "hundreds"
    ELSE IF max_price < U(10000) THEN "thousands"
    ELSE "large"

BranchStart(b) == IF b \in {"subunit", "decimal"} THEN C(29) ELSE U(9)

BranchCap(b) ==
    CASE b = "subunit" -> U(10)
      [] b = "decimal" -> U(100)
      [] b = "hundreds" -> U(1000)
      [] b = "thousands" -> U(10000)
      [] OTHER -> U(100000)

BranchStep(b, current) ==
    CASE b = "subunit" -> StepSubUnit(current)
      [] b = "decimal" -> StepDecimal(current)
      [] b = "hundreds" -> StepHundreds(current)
      [] b = "thousands" -> StepThousands(current)
      [] OTHER -> StepLarge(current)

\* while current <= limit and current <= cap and iterations < max_iterations,
\* with limit = max_price * 1.5 (current <= limit, written without the product
\* 3 * max_price); st holds the loop's variables
LoopGo(b, max_price, st) ==
    /\ st.current - max_price <= max_price \div 2
    /\ st.current <= BranchCap(b)
    /\ st.iterations < max_iterations

\* one pass of the loop body: append, count, step
LoopBody(b, st) ==
    [current |-> BranchStep(b, st.current),
     iterations |-> st.iterations + 1,
     tiers |-> Append(st.tiers, Round2(st.current))]

\* the while loop, at most k passes (evaluated by halving k, to keep the
\* evaluation shallow)
RECURSIVE GenLoop(_, _, _, _)
GenLoop(b, max_price, k, st) ==
    IF k = 0 \/ ~LoopGo(b, max_price, st) THEN st
    ELSE IF k = 1 THEN LoopBody(b, st)
    ELSE GenLoop(b, max_price, k - (k \div 2),
                 GenLoop(b, max_price, k \div 2, st))

\* variant: the distinct tiers from the highest to the lowest
DescendingSeq(S) ==
    [i \in 1..Cardinality(S) |->
        CHOOSE x \in S : Cardinality({y \in S : y > x}) = i - 1]

\* sorted(list(set(tiers)))
SortedSeq(S) ==
    [i \in 1..Cardinality(S) |->
        CHOOSE x \in S : Cardinality({y \in S : y < x}) = i - 1]

SeqRange(s) == {s[i] : i \in DOMAIN s}

\* the loop's variables when the while loop of the branch has ended
generation_loop(max_price) ==
    LET b == Branch(max_price)
        st == [current |-> BranchStart(b), iterations |-> 0, tiers |-> << >>]
    IN  GenLoop(b, max_price, max_iterations, st)

generate_granular_tiers(max_price) ==
    SortedSeq(SeqRange(generation_loop(max_price).tiers))

-----------------------------------------------------------------------------
(* tier_snapper.TIER_DEFINITIONS and get_tiers_for_currency *)

FromCents(s) == [i \in DOMAIN s |-> C(s[i])]

FromUnits(s) == [i \in DOMAIN s |-> U(s[i])]

BASE_TIER_MULTIPLIERS ==
    FromCents(<<99, 199, 299, 399, 499, 599, 699, 799, 999, 1099, 1299, 1499,
                1999, 2499, 2999, 3999, 4999, 5499, 5999, 6499, 6999, 7499, 7999,
                8499, 8999, 9499, 9999, 19999>>)

TIER_DEFINITIONS ==
    [c \in {"USD", "EUR", "GBP", "JPY", "ILS", "IDR", "VND", "KRW", "PHP", "INR",
            "THB", "MYR", "CNY", "TWD"} |->
       CASE c = "USD" -> BASE_TIER_MULTIPLIERS
         [] c = "EUR" -> BASE_TIER_MULTIPLIERS
         [] c = "GBP" -> FromCents(<<79, 149, 199, 299, 399, 499, 599, 799, 999, 1099,
                1299, 1499, 1999, 2499, 2999, 3999, 4999, 5499, 5999, 6499, 6999,
                7499, 7999, 8499, 8999, 9499, 9999, 19999>>)
         [] c = "JPY" -> generate_granular_tiers(U(230000))
         [] c = "ILS" -> generate_granular_tiers(U(450))
         [] c = "IDR" -> generate_granular_tiers(U(40000))
         [] c = "VND" -> FromUnits(<<24000, 49000, 74000, 99000, 124000, 149000,
                174000, 199000, 249000, 274000, 324000, 374000, 499000, 624000,
                749000, 999000, 1249000, 1374000, 1499000, 1624000, 1749000,
                1874000, 1999000, 2124000, 2249000, 2374000, 2499000, 4999000>>)
         [] c = "KRW" -> FromUnits(<<1200, 2400, 3600, 4800, 6000, 7200, 8400, 9600,
                12000, 13200, 15600, 18000, 24000, 30000, 36000, 48000, 60000,
                66000, 72000, 78000, 84000, 90000, 96000, 102000, 108000, 114000,
                120000, 240000>>)
         [] c = "PHP" -> FromUnits(<<49, 99, 149, 199, 249, 299, 349, 399, 499, 549,
                649, 749, 999, 1249, 1499, 1999, 2499, 2749, 2999, 3249, 3499,
                3749, 3999, 4249, 4499, 4749, 4999, 9999>>)
         [] c = "INR" -> FromUnits(<<79, 149, 199, 249, 299, 349, 399, 499, 599, 649,
                799, 899, 1199, 1499, 1799, 2399, 2999, 3299, 3599, 3899, 4199,
                4499, 4799, 5099, 5399, 5699, 5999, 11999>>)
         [] c = "THB" -> FromUnits(<<35, 69, 99, 139, 169, 199, 229, 269, 339, 369,
                439, 509, 679, 849, 1019, 1359, 1699, 1869, 2039, 2209, 2379,
                2549, 2719, 2889, 3059, 3229, 3399, 6799>>)
         [] c = "MYR" -> FromCents(<<399, 799, 1199, 1599, 1999, 2399, 2799, 3199,
                3999, 4399, 5199, 5999, 7999, 9999, 11999, 15999, 19999, 21999,
                23999, 25999, 27999, 29999, 31999, 33999, 35999, 37999, 39999,
                79999>>)
         [] c = "CNY" -> FromUnits(<<6, 12, 18, 25, 31, 37, 43, 50, 62, 68, 81, 93,
                124, 155, 186, 248, 310, 341, 372, 403, 434, 465, 496, 527, 558,
                589, 620, 1240>>)
         [] OTHER -> FromUnits(<<30, 60, 90, 120, 150, 180, 210, 240, 300, 330, 390,
                450, 600, 750, 900, 1200, 1500, 1650, 1800, 1950, 2100, 2250,
                2400, 2550, 2700, 2850, 3000, 6000>>)]

\* str.upper() on the currency and country codes the model uses
Upper(s) ==
    CASE s = "eur" -> "EUR"
      [] s = "sek" -> "SEK"
      [] s = "de" -> "DE"
      [] OTHER -> s

\* variant: a positive reference price is looked at before the table of the currency
get_tiers_reference_first(currency, reference_price) ==
    LET cur == Upper(currency)
    IN  IF reference_price # None /\ reference_price[1].n > 0
        THEN LET max_price == RMul(reference_price[1], Whole(200))
             IN  generate_granular_tiers(max_price.n \div max_price.d)
        ELSE IF cur \in DOMAIN TIER_DEFINITIONS THEN TIER_DEFINITIONS[cur]
        ELSE TIER_DEFINITIONS["USD"]

\* reference_price is None or a fraction of ticks; the reference prices of the
\* model times 200 are whole numbers of ticks
get_tiers_for_currency(currency, reference_price) ==
    LET cur == Upper(currency)
    IN  IF cur \in DOMAIN TIER_DEFINITIONS THEN TIER_DEFINITIONS[cur]
        ELSE IF reference_price # None /\ reference_price[1].n > 0
             THEN LET max_price == RMul(reference_price[1], Whole(200))
                  IN  generate_granular_tiers(max_price.n \div max_price.d)
        ELSE TIER_DEFINITIONS["USD"]

-----------------------------------------------------------------------------
(* tier_snapper.make_nice_number *)

\* the final fallback: price + max_increase, rounded to a .99 when close to an integer
NiceFallback(price, max_increase) ==
    LET nice == price + max_increase
        int_part == IntPart(nice)
    IN  IF price < U(1) THEN Round2(nice)
        ELSE IF 2 * (nice - U(int_part)) < Tick THEN Round2(U(int_part) + C(99))
        ELSE Round2(nice)

\* the branch price < 1
NiceSubUnit(price, max_increase) ==
    LET distance_to_99 == C(99) - price
        nice == CeilTo(price, Cent)
    IN  IF price < C(99) /\ (price >= C(50) \/ distance_to_99 <= C(10)
                              \/ distance_to_99 <= max_increase)
        THEN C(99)
        ELSE IF nice - price <= max_increase THEN Round2(nice)
        ELSE Round2(price + max_increase)

\* the magnitude fallbacks for price >= 1 (reached when no .99 or .9 ending fits)
NiceByMagnitude(price, max_increase) ==
    LET int_part == IntPart(price)
        candidate_99 == U(int_part) + C(99)
        next_99 == U(int_part + 1) + C(99)
        next_int == U(int_part + 1)
        step == IF price < U(1000) THEN U(5)
                ELSE IF price < U(10000) THEN U(10) ELSE U(100)
    IN  IF price < U(10)
        THEN IF CeilTo(price, Tick) - price <= max_increase
             THEN Round2(CeilTo(price, Tick))
             ELSE NiceFallback(price, max_increase)
        ELSE IF price < U(100)
        THEN IF next_int - price <= max_increase
             THEN IF (next_int + C(99)) - price <= max_increase
                  THEN Round2(next_int + C(99))
                  ELSE Round2(next_int)
             ELSE NiceFallback(price, max_increase)
        ELSE IF candidate_99 > price /\ candidate_99 - price <= max_increase
             THEN Round2(candidate_99)
             ELSE IF next_99 - price <= max_increase THEN Round2(next_99)
             ELSE IF CeilTo(price, step) - price <= max_increase
                  THEN Round2(CeilTo(price, step))
             ELSE NiceFallback(price, max_increase)

\* variant: the next amount ending in 9.99, however far
make_nice_number_next_ten(price, max_increase) ==
    IF price <= 0 THEN price ELSE U(10 * (IntPart(price) \div 10)) + C(999)

make_nice_number(price, max_increase) ==
    IF price <= 0 THEN price
    ELSE IF price < U(1) THEN NiceSubUnit(price, max_increase)
    ELSE
      LET int_part == IntPart(price)
          decimal_part == price - U(int_part)
          candidate_99 == U(int_part) + C(99)
          next_99 == U(int_part + 1) + C(99)
          candidate_9 == U(int_part) + C(90)
          next_9 == U(int_part + 1) + C(90)
      IN  IF candidate_99 > price /\ candidate_99 - price <= max_increase
          THEN Round2(candidate_99)
          ELSE IF 2 * decimal_part > Tick /\ next_99 > price
                  /\ next_99 - price <= max_increase
          THEN Round2(next_99)
          ELSE IF candidate_9 > price /\ candidate_9 - price <= max_increase
          THEN Round1(candidate_9)
          ELSE IF 2 * decimal_part > Tick /\ next_9 > price
                  /\ next_9 - price <= max_increase
          THEN Round1(next_9)
          ELSE NiceByMagnitude(price, max_increase)

-----------------------------------------------------------------------------
(* tier_snapper.snap_to_tier *)

TIER_SNAPPING_MODE == "up"

FirstIndex(S) == CHOOSE i \in S : \A j \in S : i <= j

\* the largest increase mode "up" accepts for a price
MaxIncrease(price) ==
    IF price < U(1)
    THEN IF C(50) <= price /\ price < C(99) THEN (C(99) - price) + C(1)
         ELSE IF price < C(50)
         THEN IF C(99) - price <= C(10) THEN (C(99) - price) + C(1) ELSE C(2)
         ELSE C(2)
    ELSE IF price < U(10) THEN U(1)
    ELSE IF price < U(10000) THEN U(2)
    ELSE Min(U(2), price \div 10000)

\* the amount ends in .99 or .9
Is99Ending(x) ==
    LET rounded == Round2(x)
        decimal == rounded - U(IntPart(rounded))
    IN  Abs(decimal - C(99)) < C(1) \/ Abs(decimal - C(90)) < C(1)

\* the tier the scan keeps: the least increase, the first one among equals
BestTier(tiers, price, max_increase, want99) ==
    LET ok == {i \in DOMAIN tiers :
                 /\ tiers[i] > price
                 /\ tiers[i] - price <= max_increase
                 /\ Is99Ending(tiers[i]) = want99}
    IN  IF ok = {} THEN None
        ELSE LET i == CHOOSE j \in ok :
                        \A k \in ok : \/ tiers[j] < tiers[k]
                                      \/ (tiers[j] = tiers[k] /\ j <= k)
             IN  Some(tiers[i])

\* variant of mode "up": the first tier at or above the price, the last tier when
\* the price exceeds them all
SnapUpLeastTier(price, currency) ==
    The({LET above == {i \in DOMAIN tiers : tiers[i] >= price}
         IN  IF above = {} THEN tiers[Len(tiers)] ELSE tiers[FirstIndex(above)] :
         tiers \in {get_tiers_for_currency(currency, Some(Whole(price)))}})

\* mode "up"
\* make_nice_number(price, max_increase), tried again from a cent higher when the
\* result does not exceed the price
Nice99(price, max_increase) ==
    The({IF first_nice <= price
         THEN make_nice_number(price + Min(C(1), max_increase), max_increase)
         ELSE first_nice :
         first_nice \in {make_nice_number(price, max_increase)}})

\* the scan of the tiers, reached when no .99 amount was returned
ScanTiers(price, currency, max_increase, nice_99) ==
    The({The({IF best_99_tier # None THEN Round2(best_99_tier[1])
              ELSE IF best_regular_tier # None THEN Round2(best_regular_tier[1])
              ELSE IF nice_99 <= price THEN price + Min(C(1), max_increase)
              ELSE nice_99 :
              best_99_tier \in {BestTier(tiers, price, max_increase, TRUE)},
              best_regular_tier \in {BestTier(tiers, price, max_increase, FALSE)}}) :
         tiers \in {get_tiers_for_currency(currency, Some(Whole(price)))}})

\* mode "up" (the tiers, which the code fetches first, are computed where they
\* are first used)
SnapUp(price, currency) ==
    The({IF Is99Ending(nice_99) /\ nice_99 > price /\ nice_99 - price <= max_increase
         THEN nice_99
         ELSE ScanTiers(price, currency, max_increase, nice_99) :
         max_increase \in {MaxIncrease(price)},
         nice_99 \in {Nice99(price, MaxIncrease(price))}})

\* min(tiers, key=lambda x: abs(x - price)): the first of the closest tiers
ClosestTier(tiers, price) ==
    tiers[CHOOSE i \in DOMAIN tiers :
              \A k \in DOMAIN tiers :
                  \/ Abs(tiers[i] - price) < Abs(tiers[k] - price)
                  \/ (Abs(tiers[i] - price) = Abs(tiers[k] - price) /\ i <= k)]

\* modes "nearest" and "down"
\* the positions where the scan stops: a bracket or an equal tier
ScanStops(tiers, price) ==
    {i \in 1..(Len(tiers) - 1) : \/ (tiers[i] < price /\ price < tiers[i + 1])
                                 \/ price = tiers[i] \/ price = tiers[i + 1]}

SnapBetween(price, currency, mode) ==
    The({IF price <= tiers[1] THEN tiers[1]
         ELSE IF price >= tiers[Len(tiers)] THEN tiers[Len(tiers)]
         ELSE The({IF stops = {} THEN ClosestTier(tiers, price)
                   ELSE The({IF ~(tiers[i] < price /\ price < tiers[i + 1]) THEN price
                             ELSE IF mode = "down" THEN tiers[i]
                             ELSE IF Abs(price - tiers[i]) <= Abs(price - tiers[i + 1])
                                  THEN tiers[i] ELSE tiers[i + 1] :
                             i \in {FirstIndex(stops)}}) :
                   stops \in {ScanStops(tiers, price)}}) :
         tiers \in {get_tiers_for_currency(currency, Some(Whole(price)))}})

\* variant: every call snaps down to the tier below the price
snap_to_tier_down(price, currency, mode) ==
    IF price <= 0 THEN price ELSE SnapBetween(price, currency, "down")

snap_to_tier(price, currency, mode) ==
    IF price <= 0 THEN price
    ELSE LET m == IF mode = None THEN TIER_SNAPPING_MODE ELSE mode[1]
         IN  IF m = "up" THEN SnapUp(price, currency)
             ELSE SnapBetween(price, currency, m)

-----------------------------------------------------------------------------
(* config.py *)

STASH_FEE_PERCENT == 0

STASH_FIXED_FEE == 0

APPLE_FEE_PERCENT == 30

PRICE_CHANGE_THRESHOLD == 5

EXCLUDED_COUNTRIES == {}

-----------------------------------------------------------------------------
(* exchange_rates.ExchangeRateClient: rates are fractions, local units per USD *)

\* variant: a currency without an entry has no value
get_rate_unquoted(currency, rates) ==
    LET c == Upper(currency)
    IN  IF c \in DOMAIN rates THEN rates[c] ELSE Whole(0)

get_rate(currency, rates) ==
    LET c == Upper(currency)
    IN  IF c \in DOMAIN rates THEN rates[c] ELSE Whole(1)

\* usd_amount * rate; the modelled costs and rates give a whole number of ticks
convert_usd_to_currency(usd_amount, currency, rates) ==
    LET p == RMul(Whole(usd_amount), get_rate(currency, rates))
    IN  p.n \div p.d

\* amount / rate, 0.0 for a zero rate; amount is a fraction
convert_currency_to_usd(amount, currency, rates) ==
    LET rate == get_rate(currency, rates)
    IN  IF rate.n = 0 THEN Whole(0) ELSE RDiv(amount, rate)

-----------------------------------------------------------------------------
(* The two conversions in floating point. A float is a fraction m * 2^e with a
   mantissa m of MantissaBits bits; Python's floats have 53. *)

MantissaBits == 8

RECURSIVE Pow2(_)
Pow2(k) == IF k = 0 THEN 1 ELSE 2 * Pow2(k - 1)

\* q / 2^e
Scaled(q, e) == IF e >= 0 THEN RMul(q, Rat(1, Pow2(e))) ELSE RMul(q, Whole(Pow2(0 - e)))

\* the exponent e of q > 0: 2^(MantissaBits - 1) <= q / 2^e < 2^MantissaBits
RECURSIVE FloatExponent(_, _)
FloatExponent(q, e) ==
    IF Scaled(q, e).n < Pow2(MantissaBits - 1) * Scaled(q, e).d THEN FloatExponent(q, e - 1)
    ELSE IF Scaled(q, e).n >= Pow2(MantissaBits) * Scaled(q, e).d THEN FloatExponent(q, e + 1)
    ELSE e

\* the float nearest to q >= 0, ties to the even mantissa
round_float(q) ==
    IF q.n = 0 THEN Whole(0)
    ELSE The({IF e >= 0 THEN Whole(RRound(Scaled(q, e), 1) * Pow2(e))
              ELSE Rat(RRound(Scaled(q, e), 1), Pow2(0 - e)) :
              e \in {FloatExponent(q, 0)}})

\* a * b and a / b of two floats
float_mul(a, b) == round_float(RMul(a, b))

float_div(a, b) == round_float(RDiv(a, b))

convert_usd_to_currency_float(usd_amount, currency, rates) ==
    float_mul(usd_amount, get_rate(currency, rates))

\* variant: the amount is multiplied by the rate again
convert_currency_to_usd_times(amount, currency, rates) ==
    float_mul(amount, get_rate(currency, rates))

convert_currency_to_usd_float(amount, currency, rates) ==
    LET rate == get_rate(currency, rates)
    IN  IF rate.n = 0 THEN Whole(0) ELSE float_div(amount, rate)

-----------------------------------------------------------------------------
(* tax_calculator.py: rates in whole percent *)

TAX_RATES ==
    ("AT" :> 20) @@ ("BE" :> 21) @@ ("BG" :> 20) @@ ("HR" :> 25) @@ ("CY" :> 19)
    @@ ("CZ" :> 21) @@ ("DK" :> 25) @@ ("EE" :> 20) @@ ("FI" :> 24) @@ ("FR" :> 20)
    @@ ("DE" :> 19) @@ ("GR" :> 24) @@ ("HU" :> 27) @@ ("IE" :> 23) @@ ("IT" :> 22)
    @@ ("LV" :> 21) @@ ("LT" :> 21) @@ ("LU" :> 17) @@ ("MT" :> 18) @@ ("NL" :> 21)
    @@ ("PL" :> 23) @@ ("PT" :> 23) @@ ("RO" :> 19) @@ ("SK" :> 20) @@ ("SI" :> 22)
    @@ ("ES" :> 21) @@ ("SE" :> 25) @@ ("GB" :> 20) @@ ("AU" :> 10) @@ ("NZ" :> 15)
    @@ ("ZA" :> 15) @@ ("BR" :> 17) @@ ("AR" :> 21) @@ ("CL" :> 19) @@ ("CO" :> 19)
    @@ ("MX" :> 16) @@ ("PE" :> 18) @@ ("US" :> 0) @@ ("CA" :> 0) @@ ("HK" :> 0)
    @@ ("SG" :> 0) @@ ("AE" :> 0) @@ ("QA" :> 0) @@ ("KW" :> 0) @@ ("BH" :> 0)
    @@ ("OM" :> 0) @@ ("SA" :> 0) @@ ("JP" :> 10) @@ ("KR" :> 10) @@ ("IN" :> 18)
    @@ ("CN" :> 13)

VAT_INCLUSIVE_COUNTRIES ==
    {"AR", "AT", "AU", "BE", "BG", "BR", "CL", "CN", "CO", "CY", "CZ", "DE",
     "DK", "EE", "ES", "FI", "FR", "GB", "GR", "HR", "HU", "IE", "IN", "IT",
     "JP", "KR", "LT", "LU", "LV", "MT", "MX", "NL", "NZ", "PE", "PL", "PT",
     "RO", "SE", "SI", "SK", "ZA"}

VAT_EXCLUSIVE_COUNTRIES == {"US", "CA"}

\* countries where the processor adds the tax on top of the price it is sent
STASH_PRE_TAX_COUNTRIES == {"US", "CA", "BR"}

\* variant: a country without an entry is given the standard rate of 20 percent
get_tax_rate_standard(country_code) ==
    LET cc == Upper(country_code)
    IN  IF cc \in DOMAIN TAX_RATES THEN TAX_RATES[cc] ELSE 20

get_tax_rate(country_code) ==
    LET cc == Upper(country_code)
    IN  IF cc \in DOMAIN TAX_RATES THEN TAX_RATES[cc] ELSE 0

is_vat_inclusive(country_code) == Upper(country_code) \in VAT_INCLUSIVE_COUNTRIES

\* variant: the tax is added on top of the display price in every country
calculate_tax_on_top(price, country_code) ==
    [tax_amount |-> Rat(price * get_tax_rate(country_code), 100),
     net_price |-> Whole(price)]

\* (tax_amount, net_price_before_tax) of a display price, as fractions
calculate_tax(price, country_code) ==
    LET tax_rate == get_tax_rate(country_code)
    IN  IF is_vat_inclusive(country_code)
        THEN IF tax_rate = 0
             THEN [tax_amount |-> Whole(0), net_price |-> Whole(price)]
             ELSE LET net_price == Rat(price * 100, 100 + tax_rate)
                  IN  [tax_amount |-> RSub(Whole(price), net_price),
                       net_price |-> net_price]
        ELSE [tax_amount |-> Rat(price * tax_rate, 100), net_price |-> Whole(price)]

\* variant: the processor is sent what the user pays in every country
get_stash_price_as_paid(user_pays, country_code) == user_pays

\* the price sent to the payment processor for what the user pays
get_stash_price(user_pays, country_code) ==
    LET cc == Upper(country_code)
    IN  IF cc \in STASH_PRE_TAX_COUNTRIES /\ is_vat_inclusive(cc)
        THEN RDiv(user_pays, Rat(100 + get_tax_rate(cc), 100))
        ELSE user_pays

-----------------------------------------------------------------------------
(* country_names.py, for the countries of the modelled map *)

COUNTRY_NAMES ==
    ("US" :> "United States") @@ ("DE" :> "Germany") @@ ("JP" :> "Japan")
    @@ ("BR" :> "Brazil") @@ ("IL" :> "Israel")

get_country_name(country_code) ==
    LET cc == Upper(country_code)
    IN  IF cc \in DOMAIN COUNTRY_NAMES THEN COUNTRY_NAMES[cc] ELSE country_code

-----------------------------------------------------------------------------
(* price_converter.PriceConverter *)

\* float(text) of a Cost cell: the amount in ticks, or None where float() raises
ParseFloat(text) ==
    CASE text = "25.00" -> Some(U(25))
      [] text = "100.00" -> Some(U(100))
      [] text = "9.99" -> Some(C(999))
      [] text = "0.99" -> Some(C(99))
      [] text = "0.25" -> Some(C(25))
      [] text = "0" -> Some(0)
      [] text = "-5.00" -> Some(0 - U(5))
      [] OTHER -> None

\* the config module as calculate_stash_fees reads it: the fee in whole percent
\* and the fixed fee in ticks
config == [STASH_FEE_PERCENT |-> STASH_FEE_PERCENT, STASH_FIXED_FEE |-> STASH_FIXED_FEE]

\* variant: the percentage is left out of the fee
calculate_stash_fees_fixed(net_before_fees, cfg) == Whole(cfg.STASH_FIXED_FEE)

calculate_stash_fees(net_before_fees, cfg) ==
    RAdd(RMul(net_before_fees, Rat(cfg.STASH_FEE_PERCENT, 100)),
         Whole(cfg.STASH_FIXED_FEE))

calculate_apple_net(gross_usd) == RMul(gross_usd, Rat(100 - APPLE_FEE_PERCENT, 100))

\* Step 2: the vendor's price for the USD tier and currency, None when the map has none
apple_price(usd_price, currency, pricing_map) ==
    IF usd_price \in DOMAIN pricing_map /\ currency \in DOMAIN pricing_map[usd_price]
    THEN Some(pricing_map[usd_price][currency])
    ELSE None

\* the first tier >= the raw price, the visibility price kept when there is none
NextTierAbove(local_price_raw, currency, visibility) ==
    The({LET above == {i \in DOMAIN tiers : tiers[i] >= local_price_raw}
         IN  IF above = {} THEN visibility ELSE tiers[FirstIndex(above)] :
         tiers \in {get_tiers_for_currency(currency, Some(Whole(local_price_raw)))}})

\* math.ceil(raw / step) * step, one step more when that does not exceed raw
CeilAbove(local_price_raw, step) ==
    LET v == CeilTo(local_price_raw, step)
    IN  IF v <= local_price_raw THEN v + step ELSE v

NiceAbove(local_price_raw) ==
    IF local_price_raw < U(1) THEN CeilAbove(local_price_raw, Cent)
    ELSE IF local_price_raw < U(100) THEN CeilAbove(local_price_raw, U(1))
    ELSE IF local_price_raw < U(1000) THEN CeilAbove(local_price_raw, U(5))
    ELSE IF local_price_raw < U(10000) THEN CeilAbove(local_price_raw, U(10))
    ELSE CeilAbove(local_price_raw, U(100))

\* the result of the resolver call of Step 3, None when Step 3 does not call it
snapped_price(local_price_raw, currency, apple) ==
    IF apple # None /\ apple[1] >= local_price_raw THEN None
    ELSE Some(snap_to_tier(local_price_raw, currency, Some("up")))

\* variant of Step 3: the vendor's price is taken without comparing it with the raw price
visibility_price_vendor_first(local_price_raw, currency, apple) ==
    IF apple # None THEN apple[1]
    ELSE snap_to_tier(local_price_raw, currency, Some("up"))

\* Step 3: what the user will pay before tax is added
visibility_price(local_price_raw, currency, apple) ==
    The({IF snapped = None THEN apple[1]
         ELSE IF apple = None /\ snapped[1] <= local_price_raw
              THEN The({IF tier <= local_price_raw THEN NiceAbove(local_price_raw)
                        ELSE tier :
                        tier \in {NextTierAbove(local_price_raw, currency, snapped[1])}})
         ELSE snapped[1] :
         snapped \in {snapped_price(local_price_raw, currency, apple)}})

\* f"+{x:.1f}%" if x > 0 else f"{x:.1f}%", as the sign prefix and the tenths shown
FormatPercent(x) ==
    [plus |-> x.n > 0, tenths |-> RRound(RMul(x, Whole(10)), 1)]

net_vs_apple(net_usd, apple_net) ==
    IF apple_net.n > 0
    THEN RMul(RDiv(RSub(net_usd, apple_net), apple_net), Whole(100))
    ELSE Whole(0)

\* what the user will pay: the visibility price, plus the tax where it is not included
user_pays_of(visibility, country_code, vat_amount) ==
    IF is_vat_inclusive(country_code) THEN Whole(visibility)
    ELSE RAdd(Whole(visibility), vat_amount)

\* Steps 3 to 6 for a visibility price: the unrounded local variables of
\* convert_sku_for_country, as fractions
revenue(visibility, country_code, currency, exchange_rates_dict, cfg) ==
    The({LET stash_fee_local == calculate_stash_fees(tax.net_price, cfg)
             net_revenue_local == RSub(tax.net_price, stash_fee_local)
             gross_usd == convert_currency_to_usd(Whole(visibility), currency,
                                                  exchange_rates_dict)
             user_pays == user_pays_of(visibility, country_code, tax.tax_amount)
         IN  [vat_rate |-> get_tax_rate(country_code),
              vat_amount |-> tax.tax_amount,
              net_before_fees |-> tax.net_price,
              stash_fee_local |-> stash_fee_local,
              net_revenue_local |-> net_revenue_local,
              gross_usd |-> gross_usd,
              stash_fee_usd |-> convert_currency_to_usd(stash_fee_local, currency,
                                                        exchange_rates_dict),
              net_usd |-> convert_currency_to_usd(net_revenue_local, currency,
                                                  exchange_rates_dict),
              apple_net |-> calculate_apple_net(gross_usd),
              user_pays |-> user_pays,
              stash_price |-> get_stash_price(user_pays, country_code)] :
         tax \in {calculate_tax(visibility, country_code)}})

\* the record built from the rounded amounts
price_record(sku, country_code, currency, exchange_rates_dict, usd_price, local_price_raw, visibility) ==
    The({[Country |-> country_code,
          Country_Name |-> get_country_name(country_code),
          Currency |-> currency,
          Price_Tier |-> Round2(usd_price),
          AppleStoreSku |-> sku.AppleStoreSku,
          GooglePlaySku |-> sku.GooglePlaySku,
          Local_Price |-> Round2(local_price_raw),
          User_Pays |-> RRound(r.user_pays, Cent),
          Stash_Price |-> RRound(r.stash_price, Cent),
          VAT_Rate |-> r.vat_rate,
          VAT_Amount |-> RRound(r.vat_amount, Cent),
          Gross_USD |-> RRound(r.gross_usd, Cent),
          Stash_Fee_USD |-> RRound(r.stash_fee_usd, Cent),
          Net_USD |-> RRound(r.net_usd, Cent),
          Net_vs_Apple |-> FormatPercent(net_vs_apple(r.net_usd, r.apple_net))] :
         r \in {revenue(visibility, country_code, currency, exchange_rates_dict, config)}})

\* the record of one (SKU, country) pair, None where the code catches an exception
convert_sku_for_country(sku, country_code, currency, exchange_rates_dict, pricing_map) ==
    The({IF cost = None THEN None
         ELSE The({The({Some(price_record(sku, country_code, currency,
                                          exchange_rates_dict, cost[1],
                                          local_price_raw, visibility)) :
                        visibility \in {visibility_price(local_price_raw, currency,
                                                         apple)}}) :
                   local_price_raw \in {convert_usd_to_currency(cost[1], currency,
                                                                exchange_rates_dict)},
                   apple \in {apple_price(cost[1], currency, pricing_map)}}) :
         cost \in {ParseFloat(sku.Cost)}})

\* main.COUNTRY_CURRENCY_MAP in iteration order, restricted to the modelled countries
COUNTRY_CURRENCY_MAP ==
    << <<"US", "USD">>, <<"DE", "EUR">>, <<"BR", "BRL">>, <<"IL", "ILS">> >>

\* the records of one SKU for the countries map[1..n], in map order
RECURSIVE ConvertCountries(_, _, _, _, _, _)
ConvertCountries(sku, map, n, exchange_rates_dict, pricing_map, excluded) ==
    IF n = 0 THEN << >>
    ELSE LET before == ConvertCountries(sku, map, n - 1, exchange_rates_dict, pricing_map,
                                        excluded)
             country_code == map[n][1]
         IN  IF country_code \in excluded THEN before
             ELSE before \o convert_sku_for_country(sku, country_code, map[n][2],
                                                    exchange_rates_dict, pricing_map)

RECURSIVE ConvertSkus(_, _, _, _, _, _)
ConvertSkus(skus, n, map, exchange_rates_dict, pricing_map, excluded) ==
    IF n = 0 THEN << >>
    ELSE ConvertSkus(skus, n - 1, map, exchange_rates_dict, pricing_map, excluded)
         \o ConvertCountries(skus[n], map, Len(map), exchange_rates_dict, pricing_map,
                             excluded)

\* variant: a pair that fails ends the batch without a record
process_all_skus_aborting(skus, country_currency_map, exchange_rates_dict, pricing_map, excluded) ==
    IF skus = << >> \/ \E i \in DOMAIN skus : ParseFloat(skus[i].Cost) = None THEN << >>
    ELSE ConvertSkus(skus, Len(skus), country_currency_map, exchange_rates_dict, pricing_map,
                     excluded)

\* variant: the exclusion list is not consulted
process_all_skus_everywhere(skus, country_currency_map, exchange_rates_dict, pricing_map, excluded) ==
    IF skus = << >> THEN << >>
    ELSE ConvertSkus(skus, Len(skus), country_currency_map, exchange_rates_dict, pricing_map,
                     {})

\* skus is what read_config_sheet returned, excluded is config.EXCLUDED_COUNTRIES
process_all_skus_with_rates(skus, country_currency_map, exchange_rates_dict, pricing_map, excluded) ==
    IF skus = << >> THEN << >>
    ELSE ConvertSkus(skus, Len(skus), country_currency_map, exchange_rates_dict, pricing_map,
                     excluded)

-----------------------------------------------------------------------------
(* price_stability.py *)

\* variant: a rise of exactly the threshold counts as significant
should_update_price_inclusive(new_price, existing_price, price_tier, currency) ==
    [update |-> \/ existing_price = None
                \/ new_price <= 0 \/ existing_price[1] <= 0
                \/ new_price < existing_price[1]
                \/ 100 * Abs(new_price - existing_price[1])
                       >= PRICE_CHANGE_THRESHOLD * existing_price[1],
     reason |-> ""]

\* variant: the comparison is made without the check for non-positive prices
should_update_price_unchecked(new_price, existing_price, price_tier, currency) ==
    [update |-> \/ existing_price = None
                \/ new_price < existing_price[1]
                \/ 100 * Abs(new_price - existing_price[1])
                       > PRICE_CHANGE_THRESHOLD * existing_price[1],
     reason |-> ""]

\* variant: a recorded price is never replaced
should_update_price_sticky(new_price, existing_price, price_tier, currency) ==
    [update |-> existing_price = None, reason |-> ""]

should_update_price(new_price, existing_price, price_tier, currency) ==
    IF existing_price = None
    THEN [update |-> TRUE, reason |-> "First time setting price"]
    ELSE IF new_price <= 0 \/ existing_price[1] <= 0
    THEN [update |-> TRUE, reason |-> "Invalid price detected, updating"]
    ELSE IF new_price < existing_price[1]
    THEN [update |-> TRUE, reason |-> "Price decreased (beneficial)"]
    ELSE IF 100 * Abs(new_price - existing_price[1]) > PRICE_CHANGE_THRESHOLD * existing_price[1]
    THEN [update |-> TRUE, reason |-> "Price increased (significant change)"]
    ELSE [update |-> FALSE, reason |-> "Price increased (below threshold, keeping stable)"]

\* f"{country}:{sku}"
LookupKey(country, sku) == <<country, sku>>

\* existing_prices.get(lookup_key)
DictGet(dict, key) == IF key \in DOMAIN dict THEN Some(dict[key]) ELSE None

\* variant: a held row also gets its remittance price from the previous price
apply_price_stability_recomputing(new_price_data, existing_prices) ==
    LET existing_price == DictGet(existing_prices,
                              LookupKey(new_price_data.Country, new_price_data.AppleStoreSku))
        decision == should_update_price(new_price_data.User_Pays, existing_price,
                                        new_price_data.Price_Tier, new_price_data.Currency)
    IN  IF ~decision.update
        THEN [row |-> [new_price_data EXCEPT !.User_Pays = existing_price[1],
                                             !.Stash_Price = existing_price[1]],
              was_updated |-> FALSE]
        ELSE [row |-> new_price_data, was_updated |-> TRUE]

\* variant: every new price is adopted
apply_price_stability_always(new_price_data, existing_prices) ==
    [row |-> new_price_data, was_updated |-> TRUE]

\* (row, was_updated)
apply_price_stability(new_price_data, existing_prices) ==
    LET lookup_key == LookupKey(new_price_data.Country, new_price_data.AppleStoreSku)
        existing_price == DictGet(existing_prices, lookup_key)
        decision == should_update_price(new_price_data.User_Pays, existing_price,
                                        new_price_data.Price_Tier, new_price_data.Currency)
    IN  IF ~decision.update
        THEN [row |-> [new_price_data EXCEPT !.User_Pays = existing_price[1]],
              was_updated |-> FALSE]
        ELSE [row |-> new_price_data, was_updated |-> TRUE]

-----------------------------------------------------------------------------
(* sheets_client.SheetsClient: a sheet is the sequence of its data rows *)

EmptyDict == << >>

StartsWithCreditPrefix(apple_sku) ==
    apple_sku \in {"com.peerplay.mergecruise.credit1", "com.peerplay.mergecruise.credit2",
                   "com.peerplay.mergecruise.credit3"}

RECURSIVE ConfigRows(_, _)
ConfigRows(values, n) ==
    IF n <= 1 THEN << >>
    ELSE LET row == values[n]
         IN  IF Len(row) < 3 \/ ~StartsWithCreditPrefix(row[1])
             THEN ConfigRows(values, n - 1)
             ELSE Append(ConfigRows(values, n - 1),
                         [AppleStoreSku |-> row[1], GooglePlaySku |-> row[2], Cost |-> row[3]])

\* values holds the header row and the rows of columns A:C
read_config_sheet(values) == ConfigRows(values, Len(values))

\* the cells of one written row, in the order of the headers
MatrixRow(row_data) ==
    <<row_data.Country, row_data.Country_Name, row_data.Currency, row_data.Price_Tier,
      row_data.AppleStoreSku, row_data.GooglePlaySku, row_data.Local_Price,
      row_data.User_Pays, row_data.Stash_Price, row_data.VAT_Rate, row_data.VAT_Amount,
      row_data.Gross_USD, row_data.Stash_Fee_USD, row_data.Net_USD, row_data.Net_vs_Apple>>

\* the sheet after the clear and the update
write_price_matrix(price_data) == [i \in DOMAIN price_data |-> MatrixRow(price_data[i])]

\* variant: the previous price is taken from the Local_Price column
read_price_matrix_local(sheet, readable) ==
    IF ~readable \/ sheet = << >> THEN EmptyDict
    ELSE [k \in {LookupKey(sheet[i][1], sheet[i][5]) : i \in DOMAIN sheet} |->
             sheet[CHOOSE i \in DOMAIN sheet :
                       /\ LookupKey(sheet[i][1], sheet[i][5]) = k
                       /\ \A j \in DOMAIN sheet :
                              LookupKey(sheet[j][1], sheet[j][5]) = k => j <= i][7]]

\* (country:sku) -> User_Pays of the stored rows, {} when the read raises
read_price_matrix(sheet, readable) ==
    IF ~readable \/ sheet = << >> THEN EmptyDict
    ELSE LET valid == {i \in DOMAIN sheet :
                          /\ Len(sheet[i]) >= 8
                          /\ sheet[i][1] # "" /\ sheet[i][5] # ""
                          /\ sheet[i][8] > 0}
             keys == {LookupKey(sheet[i][1], sheet[i][5]) : i \in valid}
             LastRow(k) == CHOOSE i \in valid :
                               /\ LookupKey(sheet[i][1], sheet[i][5]) = k
                               /\ \A j \in valid :
                                      LookupKey(sheet[j][1], sheet[j][5]) = k => j <= i
         IN  [k \in keys |-> sheet[LastRow(k)][8]]

\* variant: the log is taken to hold no rate
read_exchange_rates_ignored(log) == EmptyDict

\* an entry of the log holds the rows of one date; the rows of the latest date
\* (the least age) are read and rates that are not > 0 are skipped
read_exchange_rates_from_sheet(log) ==
    IF log = << >> THEN EmptyDict
    ELSE LET latest == CHOOSE i \in DOMAIN log : \A j \in DOMAIN log : log[i].date <= log[j].date
             kept == {c \in DOMAIN log[latest].rates : log[latest].rates[c].n > 0}
         IN  [c \in kept |-> log[latest].rates[c]]

\* the log after the clear and the update
log_exchange_rates(rates, date) == <<[date |-> date, rates |-> rates]>>

-----------------------------------------------------------------------------
(* exchange_rates.ExchangeRateClient.fetch_rates; a date is its age in days
   (today minus the date), a response is [ok, age, rates] *)

WithUSD(rates) ==
    [c \in DOMAIN rates \cup {"USD"} |-> IF c = "USD" THEN Whole(1) ELSE rates[c]]

DictPut(dict, key, value) ==
    [k \in DOMAIN dict \cup {key} |-> IF k = key THEN value ELSE dict[k]]

\* max(self.cache.keys()): the most recent date is the least age
LatestDate(cache) == CHOOSE d \in DOMAIN cache : \A e \in DOMAIN cache : d <= e

RECURSIVE FetchAttempt(_, _, _, _)
FetchAttempt(attempt, max_retries, responses, cache) ==
    IF attempt >= max_retries
    THEN [raised |-> TRUE, rates |-> EmptyDict, date |-> 0, cache |-> cache,
          requests |-> attempt]
    ELSE LET resp == responses[attempt + 1]
             last == (attempt = max_retries - 1)
         IN  IF ~resp.ok
             THEN IF ~last THEN FetchAttempt(attempt + 1, max_retries, responses, cache)
                  ELSE IF cache # EmptyDict
                  THEN [raised |-> FALSE, rates |-> cache[LatestDate(cache)],
                        date |-> LatestDate(cache), cache |-> cache,
                        requests |-> attempt + 1]
                  ELSE [raised |-> TRUE, rates |-> EmptyDict, date |-> 0, cache |-> cache,
                        requests |-> attempt + 1]
             ELSE IF resp.age >= 1 /\ ~last
             THEN FetchAttempt(attempt + 1, max_retries, responses, cache)
             ELSE [raised |-> FALSE, rates |-> WithUSD(resp.rates), date |-> resp.age,
                   cache |-> DictPut(cache, resp.age, WithUSD(resp.rates)),
                   requests |-> attempt + 1]

\* variant: the first answer is returned whatever its date
fetch_rates_unchecked(max_retries, responses, cache) ==
    IF max_retries >= 1 /\ responses[1].ok
    THEN [raised |-> FALSE, rates |-> WithUSD(responses[1].rates),
          date |-> responses[1].age,
          cache |-> DictPut(cache, responses[1].age, WithUSD(responses[1].rates)),
          requests |-> 1]
    ELSE FetchAttempt(0, max_retries, responses, cache)

\* variant: the cache is not consulted
fetch_rates_uncached(max_retries, responses, cache) ==
    FetchAttempt(0, max_retries, responses, EmptyDict)

fetch_rates(max_retries, responses, cache) == FetchAttempt(0, max_retries, responses, cache)

-----------------------------------------------------------------------------
(* The inputs of a run: the Config sheet, the API's answers, a readable matrix *)

ConfigHeader == <<"AppleStoreSku", "GooglePlaySku", "Cost">>

Credit1 == <<"com.peerplay.mergecruise.credit1", "credit1", "25.00">>

Credit2 == <<"com.peerplay.mergecruise.credit2", "credit2", "100.00">>

Credit3 == <<"com.peerplay.mergecruise.credit3", "credit3", "abc">>

OtherSku == <<"com.peerplay.other.pack1", "pack1", "25.00">>

ShortRow == <<"com.peerplay.mergecruise.credit2", "credit2">>

ConfigSheets ==
    {<< >>,
     <<ConfigHeader, OtherSku>>,
     <<ConfigHeader, Credit1, ShortRow>>,
     <<ConfigHeader, Credit1, Credit2>>,
     <<ConfigHeader, Credit3>>,
     <<ConfigHeader, Credit3, Credit2, OtherSku>>}

RatesA == ("EUR" :> Whole(1)) @@ ("BRL" :> Whole(5)) @@ ("ILS" :> Rat(15, 4))

RatesB == ("EUR" :> Rat(26, 25)) @@ ("BRL" :> Rat(26, 5)) @@ ("ILS" :> Rat(15, 4))

RatesC == ("EUR" :> Rat(11, 10)) @@ ("BRL" :> Whole(5))

Failed == [ok |-> FALSE, age |-> 0, rates |-> EmptyDict]

Answer(age, rates) == [ok |-> TRUE, age |-> age, rates |-> rates]

\* the API's answers to the successive requests of one fetch_rates call
FetchScenarios ==
    {<<Failed, Failed, Failed>>,
     <<Answer(0, RatesA), Failed, Failed>>,
     <<Answer(0, RatesB), Failed, Failed>>,
     <<Answer(0, RatesC), Failed, Failed>>,
     <<Answer(1, RatesA), Answer(1, RatesA), Answer(1, RatesA)>>,
     <<Failed, Answer(1, RatesA), Answer(0, RatesB)>>}

\* apple_pricing_map.json: absent, or prices for the 25.00 tier
PricingMaps ==
    {EmptyDict,
     (U(25) :> (("EUR" :> C(2699)) @@ ("USD" :> U(25))))}

Response(statusCode, message, count) ==
    [statusCode |-> statusCode, message |-> message, count |-> count]

\* what the last invocation read, computed and answered; snapshots_intact records
\* that no invocation so far failed to read the stored matrix
NoRun ==
    [skus |-> << >>, existing_prices |-> EmptyDict, exchange_rates_dict |-> EmptyDict,
     price_data |-> << >>, stable_price_data |-> << >>, was_updated |-> << >>,
     snapshots_intact |-> TRUE, wrote |-> FALSE,
     response |-> Response(0, "", 0)]

\* the keys of rows and the last price a run published for each
RowKeys(rows) == {LookupKey(rows[i].Country, rows[i].AppleStoreSku) : i \in DOMAIN rows}

LastPrice(rows, k) ==
    LET of == {i \in DOMAIN rows : LookupKey(rows[i].Country, rows[i].AppleStoreSku) = k}
    IN  rows[CHOOSE i \in of : \A j \in of : j <= i].User_Pays

-----------------------------------------------------------------------------
(* main.currency_conversion_handler, one invocation *)

\* the value of a sequence, and of a dictionary, computed once
Materialized(seq) == seq \o << >>

MaterializedDict(dict) == dict @@ EmptyDict

\* lines 96-109: the snapshot of previous prices and the rates of this run
ReadInputs(readable, first) ==
    LET exchange_rates_from_sheet == read_exchange_rates_from_sheet(ratesLog)
    IN  [existing_prices |-> MaterializedDict(read_price_matrix(priceMatrix, readable)),
         fetched |-> IF exchange_rates_from_sheet # EmptyDict
                     THEN [raised |-> FALSE, rates |-> exchange_rates_from_sheet,
                           cache |-> EmptyDict]
                     ELSE fetch_rates(3, first, EmptyDict)]

\* lines 126-133: the gate applied to every row, in order
GateAll(price_data, existing_prices) ==
    Materialized([i \in DOMAIN price_data |->
                     apply_price_stability(price_data[i], existing_prices)])

\* first is consulted only when the log holds no rate, last only after the write
FirstScenarios == IF read_exchange_rates_from_sheet(ratesLog) # EmptyDict
                  THEN {<<Failed, Failed, Failed>>} ELSE FetchScenarios

\* variant: a run without records goes on to the write and the log
NoPriceDataIgnored(price_data) == FALSE

\* if not price_data
NoPriceData(price_data) == price_data = << >>

currency_conversion_handler(config_values, readable, first) ==
    \E in \in {ReadInputs(readable, first)} :
      LET seen == [NoRun EXCEPT !.skus = read_config_sheet(config_values),
                                !.existing_prices = in.existing_prices,
                                !.snapshots_intact =
                                    run.snapshots_intact /\ readable]
      IN
      IF in.fetched.raised
      THEN /\ run' = [seen EXCEPT !.response =
                          Response(500, "Currency conversion failed", 0)]
           /\ UNCHANGED <<priceMatrix, ratesLog, published>>
      ELSE
      \E price_data \in {Materialized(process_all_skus_with_rates(
                             read_config_sheet(config_values), COUNTRY_CURRENCY_MAP,
                             in.fetched.rates, applePricingMap,
                             EXCLUDED_COUNTRIES))} :
        IF NoPriceData(price_data)
        THEN /\ run' = [seen EXCEPT !.exchange_rates_dict = in.fetched.rates,
                                    !.response =
                                        Response(200, "No price data generated", 0)]
             /\ UNCHANGED <<priceMatrix, ratesLog, published>>
        ELSE
        \E gated \in {GateAll(price_data, in.existing_prices)}, last \in FetchScenarios :
        \E stable_price_data \in {Materialized([i \in DOMAIN gated |-> gated[i].row])},
           final \in {fetch_rates(3, last, in.fetched.cache)} :
          /\ priceMatrix' = write_price_matrix(stable_price_data)
          /\ published' =
                 [k \in DOMAIN published \cup RowKeys(stable_price_data) |->
                     IF k \in RowKeys(stable_price_data)
                     THEN LastPrice(stable_price_data, k) ELSE published[k]]
          /\ ratesLog' = IF final.raised THEN ratesLog
                         ELSE log_exchange_rates(final.rates, final.date)
          /\ run' = [seen EXCEPT
                        !.exchange_rates_dict = in.fetched.rates,
                        !.price_data = price_data,
                        !.stable_price_data = stable_price_data,
                        !.was_updated = [i \in DOMAIN gated |-> gated[i].was_updated],
                        !.wrote = TRUE,
                        !.response =
                            IF final.raised
                            THEN Response(500, "Currency conversion failed", 0)
                            ELSE Response(200,
                                     "Currency conversion completed successfully",
                                     Len(price_data))]

Handler ==
    /\ pc = "handler"
    /\ \E config_values \in ConfigSheets, readable \in BOOLEAN, first \in FirstScenarios :
           currency_conversion_handler(config_values, readable, first)
    /\ UNCHANGED <<applePricingMap, args, ret, pc>>

\* the log before the first run: empty, rows of two dates with the older date
\* first and a zero rate among the latest, or rows without a valid rate
InitialLogs ==
    {<< >>,
     <<[date |-> 2, rates |-> RatesC],
       [date |-> 1, rates |-> RatesB @@ ("TRY" :> Whole(0))]>>,
     <<[date |-> 1, rates |-> ("EUR" :> Whole(0))]>>}

Init ==
    /\ priceMatrix = << >>
    /\ ratesLog \in InitialLogs
    /\ applePricingMap \in PricingMaps
    /\ published = EmptyDict
    /\ run = NoRun
    /\ args = << >>
    /\ ret = << >>
    /\ pc = "handler"

Next == Handler

Spec == Init /\ [][Next]_vars

-----------------------------------------------------------------------------
(* The resolver on its own: snap_to_tier applied to a price and a currency *)

MaxSnapCents == 250

SnapPrices ==
    {C(c) : c \in (0 - 1)..MaxSnapCents}
    \cup {C(850), C(999), U(10), C(1050), C(3720), C(9999), U(100), C(19999), U(250),
          C(99999), U(1500), U(12000)}

SnapCurrencies == {"USD", "EUR", "JPY", "BRL", "XYZ"}

Idle ==
    /\ priceMatrix = << >>
    /\ ratesLog = << >>
    /\ applePricingMap = EmptyDict
    /\ published = EmptyDict
    /\ run = NoRun

SnapInit ==
    /\ Idle
    /\ args \in [price : SnapPrices, currency : SnapCurrencies, mode : {None, Some("up")}]
    /\ ret = None
    /\ pc = "snap"

Snap ==
    /\ pc = "snap"
    /\ ret' = Some(snap_to_tier(args.price, args.currency, args.mode))
    /\ pc' = "snapped"
    /\ UNCHANGED <<priceMatrix, ratesLog, applePricingMap, published, run, args>>

SnapNext == Snap

SnapSpec == SnapInit /\ [][SnapNext]_vars

-----------------------------------------------------------------------------
(* One pair on its own: convert_sku_for_country applied to a SKU, a country,
   a rate and a vendor price placed relative to the raw price *)

ConvertCosts == {"25.00", "100.00", "9.99", "0.99", "0.25", "0", "-5.00", "abc"}

ConvertPairs == {<<"US", "USD">>, <<"DE", "EUR">>, <<"BR", "BRL">>, <<"IL", "ILS">>,
                      <<"JP", "JPY">>, <<"TR", "TRY">>}

ConvertRates == {Whole(1), Rat(3, 4), Rat(26, 25), Rat(15, 4), Whole(5), Whole(150)}

\* the vendor's price: none, or the raw price plus an offset
AppleOffsets == {None, Some(0), Some(0 - C(1)), Some(C(1)), Some(U(1))}

\* the cost times the rate is a whole number of ticks
WholeTicks(cost, rate) ==
    LET usd == ParseFloat(cost)
    IN  usd = None \/ (usd[1] * rate.n) % rate.d = 0

\* USD is always quoted at 1.0
PlausibleRate(currency, rate) == currency = "USD" => rate = Whole(1)

\* the vendor's price list has no negative USD tier and no negative price
PlausibleVendorPrice(cost, rate, offset) ==
    LET usd == ParseFloat(cost)
    IN  (offset # None /\ usd # None)
            => (usd[1] >= 0 /\ (usd[1] * rate.n) \div rate.d + offset[1] >= 0)

ConvertInit ==
    /\ Idle
    /\ args \in {a \in [cost : ConvertCosts, pair : ConvertPairs, rate : ConvertRates,
                        quoted : BOOLEAN, offset : AppleOffsets] :
                    /\ WholeTicks(a.cost, a.rate)
                    /\ PlausibleRate(a.pair[2], a.rate)
                    /\ PlausibleVendorPrice(a.cost, IF a.quoted THEN a.rate ELSE Whole(1),
                                            a.offset)}
    /\ ret = None
    /\ pc = "convert"

ArgSku == [AppleStoreSku |-> "com.peerplay.mergecruise.credit1",
           GooglePlaySku |-> "credit1", Cost |-> args.cost]

\* the snapshot holds the currency's rate, or no entry for the currency
ArgRates == IF args.quoted THEN (args.pair[2] :> args.rate) ELSE EmptyDict

ArgRaw == convert_usd_to_currency(ParseFloat(args.cost)[1], args.pair[2], ArgRates)

ArgPricingMap ==
    IF args.offset = None \/ ParseFloat(args.cost) = None THEN EmptyDict
    ELSE (ParseFloat(args.cost)[1] :> (args.pair[2] :> (ArgRaw + args.offset[1])))

Convert ==
    /\ pc = "convert"
    /\ ret' = LET record == convert_sku_for_country(ArgSku, args.pair[1], args.pair[2],
                                                    ArgRates, ArgPricingMap)
              IN  IF record = None THEN [failed |-> TRUE]
                  ELSE LET apple == apple_price(ParseFloat(args.cost)[1], args.pair[2],
                                                ArgPricingMap)
                       IN  [failed |-> FALSE,
                            local_price_raw |-> ArgRaw,
                            apple_price |-> apple,
                            snapped |-> snapped_price(ArgRaw, args.pair[2], apple),
                            visibility_price |->
                                visibility_price(ArgRaw, args.pair[2], apple),
                            record |-> record[1]]
    /\ pc' = "converted"
    /\ UNCHANGED <<priceMatrix, ratesLog, applePricingMap, published, run, args>>

ConvertNext == Convert

ConvertSpec == ConvertInit /\ [][ConvertNext]_vars

-----------------------------------------------------------------------------
(* Tax, fees and the amounts in USD on their own: Steps 3 to 6 of
   convert_sku_for_country applied to a visibility price, a country, a rate
   snapshot and a fee configuration *)

RevenuePrices == {0, C(1), C(499), U(10), C(2599), U(117)}

\* every country of the tax table, one written in lower case and one that is
\* in no table
RevenueCountries == DOMAIN TAX_RATES \cup {"de", "ZZ"}

RevenueRates == {Rat(3, 4), Rat(26, 5), Whole(150)}

FeeConfigs == [STASH_FEE_PERCENT : {STASH_FEE_PERCENT, 5}, STASH_FIXED_FEE : {STASH_FIXED_FEE, C(30)}]

RevenueInit ==
    /\ Idle
    /\ args \in [price : RevenuePrices, country : RevenueCountries,
                 rate : RevenueRates, quoted : BOOLEAN, cfg : FeeConfigs]
    /\ ret = None
    /\ pc = "revenue"

\* the snapshot holds the rate of the pair's currency, or no entry for it
RevenueSnapshot == IF args.quoted THEN ("EUR" :> args.rate) ELSE EmptyDict

Revenue ==
    /\ pc = "revenue"
    /\ ret' = revenue(args.price, args.country, "EUR", RevenueSnapshot, args.cfg)
    /\ pc' = "computed"
    /\ UNCHANGED <<priceMatrix, ratesLog, applePricingMap, published, run, args>>

RevenueNext == Revenue

RevenueSpec == RevenueInit /\ [][RevenueNext]_vars

-----------------------------------------------------------------------------
(* The tier catalog on its own: get_tiers_for_currency applied to a currency and
   a reference price, generate_granular_tiers applied to a maximum price *)

CatalogCurrencies == DOMAIN TIER_DEFINITIONS \cup {"eur", "BRL", "XYZ"}

\* no reference, a reference of zero or below, and positive references from
\* 0.0005 to 12000 units
CatalogReferences ==
    {None, Some(Whole(0)), Some(Whole(0 - U(1))), Some(Rat(1, 5)), Some(Rat(2, 5)),
     Some(Whole(1)), Some(Whole(C(1))), Some(Whole(C(99))), Some(Whole(U(1))),
     Some(Whole(U(25))), Some(Whole(U(500))), Some(Whole(U(12000)))}

\* maximum prices of every branch, at and around the branch limits
GenerateMaxima ==
    {0 - U(1), 0, C(10), C(19), C(20), C(50), C(99), U(1), U(5), C(999), U(10),
     U(50), U(99), U(100), U(450), U(500), U(999), U(1000), U(5000), U(9999),
     U(10000), U(40000), U(230000), U(1000000), U(5000000)}

TierInit ==
    /\ Idle
    /\ \/ /\ args \in [currency : CatalogCurrencies, reference_price : CatalogReferences]
          /\ pc = "catalog"
       \/ /\ args \in [max_price : GenerateMaxima]
          /\ pc = "generate"
    /\ ret = None

Catalog ==
    /\ pc = "catalog"
    /\ ret' = get_tiers_for_currency(args.currency, args.reference_price)
    /\ pc' = "tiers"
    /\ UNCHANGED <<priceMatrix, ratesLog, applePricingMap, published, run, args>>

\* the tiers returned, with the loop's variables at its end
Generate ==
    /\ pc = "generate"
    /\ ret' = [tiers |-> generate_granular_tiers(args.max_price),
               loop |-> generation_loop(args.max_price)]
    /\ pc' = "generated"
    /\ UNCHANGED <<priceMatrix, ratesLog, applePricingMap, published, run, args>>

TierNext == Catalog \/ Generate

TierSpec == TierInit /\ [][TierNext]_vars

-----------------------------------------------------------------------------
(* The batch on its own: process_all_skus_with_rates applied to the SKUs read
   from the Config sheet, the rates of the run and the vendor's pricing map *)

\* the SKUs of a Config sheet, two of them with a Cost float() raises on
BatchSkus ==
    {[AppleStoreSku |-> row[1], GooglePlaySku |-> row[2], Cost |-> row[3]] :
        row \in {Credit1, Credit2, Credit3,
                 <<"com.peerplay.mergecruise.credit4", "credit4", "">>}}

MaxBatch == 3

BatchLists == UNION {[1..n -> BatchSkus] : n \in 0..MaxBatch}

\* config.EXCLUDED_COUNTRIES as shipped, and with codes added to it
ExclusionLists == {EXCLUDED_COUNTRIES, {"BR"}, {"US", "DE"}, {"RU"}}

BatchInit ==
    /\ priceMatrix = << >>
    /\ ratesLog = << >>
    /\ applePricingMap \in PricingMaps
    /\ published = EmptyDict
    /\ run = NoRun
    /\ args \in [skus : BatchLists, exchange_rates_dict : {RatesA, RatesB, RatesC},
                  excluded : ExclusionLists]
    /\ ret = None
    /\ pc = "batch"

Batch ==
    /\ pc = "batch"
    /\ ret' = process_all_skus_with_rates(args.skus, COUNTRY_CURRENCY_MAP,
                                          args.exchange_rates_dict, applePricingMap,
                                          args.excluded)
    /\ pc' = "batched"
    /\ UNCHANGED <<priceMatrix, ratesLog, applePricingMap, published, run, args>>

BatchNext == Batch

BatchSpec == BatchInit /\ [][BatchNext]_vars

-----------------------------------------------------------------------------
(* The round trip on its own: a USD amount converted to a currency and back
   with the same snapshot *)

\* USD amounts in cents, as floats
RoundTripAmounts ==
    {round_float(Rat(c, 100)) :
        c \in {1, 25, 99, 199, 499, 999, 1999, 2500, 4999, 9999, 10000}}

\* two snapshots, one with a zero rate; XYZ is in neither
RoundTripSnapshots ==
    {("EUR" :> round_float(Rat(92, 100))) @@ ("BRL" :> round_float(Rat(52, 10)))
        @@ ("ILS" :> Rat(15, 4)) @@ ("JPY" :> round_float(Rat(14937, 100)))
        @@ ("USD" :> Whole(1)),
     ("EUR" :> round_float(Rat(108, 100))) @@ ("BRL" :> Whole(0))
        @@ ("JPY" :> round_float(Rat(15112, 100))) @@ ("USD" :> Whole(1))}

RoundTripCurrencies == {"USD", "EUR", "eur", "BRL", "ILS", "JPY", "XYZ"}

RoundTripInit ==
    /\ Idle
    /\ args \in [x : RoundTripAmounts, currency : RoundTripCurrencies,
                  rates : RoundTripSnapshots]
    /\ ret = None
    /\ pc = "roundtrip"

RoundTrip ==
    /\ pc = "roundtrip"
    /\ \E local \in {convert_usd_to_currency_float(args.x, args.currency, args.rates)} :
          ret' = [local |-> local,
                  usd |-> convert_currency_to_usd_float(local, args.currency, args.rates)]
    /\ pc' = "returned"
    /\ UNCHANGED <<priceMatrix, ratesLog, applePricingMap, published, run, args>>

RoundTripNext == RoundTrip

RoundTripSpec == RoundTripInit /\ [][RoundTripNext]_vars

-----------------------------------------------------------------------------
(* fetch_rates on its own: the number of attempts, the API's answers to them and
   the cache left by earlier calls of the client *)

\* an answer dated tomorrow, today, yesterday, three days ago, or a failed request
FetchResponses ==
    {Failed, Answer(0 - 1, RatesA), Answer(0, RatesB), Answer(1, RatesA),
     Answer(3, RatesC)}

FetchRetries == 0..3

\* self.cache: api_date -> the rates returned under that date
FetchCaches ==
    {EmptyDict,
     (1 :> WithUSD(RatesC)),
     (1 :> WithUSD(RatesA)) @@ (2 :> WithUSD(RatesB))}

FetchInit ==
    /\ Idle
    /\ args \in [max_retries : FetchRetries, responses : [1..3 -> FetchResponses],
                  cache : FetchCaches]
    /\ ret = None
    /\ pc = "fetch"

Fetch ==
    /\ pc = "fetch"
    /\ ret' = fetch_rates(args.max_retries, args.responses, args.cache)
    /\ pc' = "fetched"
    /\ UNCHANGED <<priceMatrix, ratesLog, applePricingMap, published, run, args>>

FetchNext == Fetch

FetchSpec == FetchInit /\ [][FetchNext]_vars

-----------------------------------------------------------------------------
(* A run and its repetition: the pipeline and the gate applied to a Config
   sheet, a rate snapshot and a previous-price snapshot, then applied again to
   the same sheet and rates with the rows of the first run as stored prices *)

RerunRates == {RatesA, RatesB, RatesC}

\* the rows the pipeline yields for the Config sheet at the given rates
RowsAt(rates) ==
    process_all_skus_with_rates(read_config_sheet(args.config_values),
                                COUNTRY_CURRENCY_MAP, rates, applePricingMap,
                                EXCLUDED_COUNTRIES)

\* the snapshot read from the matrix after rows were written to it
FedBack(rows) == read_price_matrix(write_price_matrix(rows), TRUE)

\* the prices stored before the first run: none, or those an earlier run at
\* other rates left
EarlierSnapshot ==
    IF args.earlier = None THEN EmptyDict ELSE FedBack(RowsAt(args.earlier[1]))

RerunInit ==
    /\ priceMatrix = << >>
    /\ ratesLog = << >>
    /\ applePricingMap \in PricingMaps
    /\ published = EmptyDict
    /\ run = NoRun
    /\ args \in [config_values : ConfigSheets, rates : RerunRates,
                  earlier : {None} \cup {Some(r) : r \in RerunRates}]
    /\ ret = None
    /\ pc = "first"

FirstRun ==
    /\ pc = "first"
    /\ \E snapshot \in {EarlierSnapshot} :
          ret' = [snapshot |-> snapshot,
                  first |-> GateAll(RowsAt(args.rates), snapshot),
                  second |-> << >>]
    /\ pc' = "second"
    /\ UNCHANGED <<priceMatrix, ratesLog, applePricingMap, published, run, args>>

SecondRun ==
    /\ pc = "second"
    /\ \E rows \in {[i \in DOMAIN ret.first |-> ret.first[i].row]} :
          ret' = [ret EXCEPT !.second = GateAll(RowsAt(args.rates), FedBack(rows))]
    /\ pc' = "repeated"
    /\ UNCHANGED <<priceMatrix, ratesLog, applePricingMap, published, run, args>>

RerunNext == FirstRun \/ SecondRun

RerunSpec == RerunInit /\ [][RerunNext]_vars

-----------------------------------------------------------------------------
(* The gate on its own: apply_price_stability applied to a row and a snapshot *)

GatePrices ==
    {0 - U(1), 0, U(20), U(21), C(2101), U(95), C(9999), U(100), C(10001), C(10499),
     U(105), C(10501), U(110)}

GateRow == convert_sku_for_country(
               [AppleStoreSku |-> "com.peerplay.mergecruise.credit2",
                GooglePlaySku |-> "credit2", Cost |-> "100.00"],
               "DE", "EUR", RatesA, EmptyDict)[1]

GateKey == LookupKey(GateRow.Country, GateRow.AppleStoreSku)

OtherKey == LookupKey("BR", GateRow.AppleStoreSku)

GateSnapshots ==
    {EmptyDict} \cup {(k :> e) : k \in {GateKey, OtherKey}, e \in GatePrices}

GateInit ==
    /\ Idle
    /\ args \in [new_price_data : {[GateRow EXCEPT !.User_Pays = n] : n \in GatePrices},
                 existing_prices : GateSnapshots]
    /\ ret = None
    /\ pc = "gate"

Gate ==
    /\ pc = "gate"
    /\ ret' = apply_price_stability(args.new_price_data, args.existing_prices)
    /\ pc' = "gated"
    /\ UNCHANGED <<priceMatrix, ratesLog, applePricingMap, published, run, args>>

GateNext == Gate

GateSpec == GateInit /\ [][GateNext]_vars

-----------------------------------------------------------------------------
(* Properties of the resolver and of the visibility price (SnapSpec, ConvertSpec) *)

Converted == pc = "converted" /\ ~ret.failed

\* the tier sequence the resolver is given for the price
TiersFor(currency, price) == SeqRange(get_tiers_for_currency(currency, Some(Whole(price))))

\* C1: for a raw price > 0 the visibility price chosen for the pair, with or without
\* a vendor price, is never below the raw price, and neither is the resolver's
\* result whenever the resolver is called in mode "up".
C1_VisibleNotBelowRaw ==
    (Converted /\ ret.local_price_raw > 0) =>
        /\ ret.visibility_price >= ret.local_price_raw
        /\ ret.snapped # None => ret.snapped[1] >= ret.local_price_raw

\* a vendor price below the raw price: the resolver is called and its result is used
C1_Witness ==
    /\ Converted /\ ret.local_price_raw > 0
    /\ ret.apple_price # None /\ ret.apple_price[1] < ret.local_price_raw
    /\ ret.snapped # None /\ ret.visibility_price = ret.snapped[1]

\* C2 as stated: the visible price equals the raw price only when the raw price
\* exceeds every tier of the currency; when some tier is above the raw price the
\* visible price is strictly greater.
C2_EqualOnlyWhenExhausted ==
    (Converted /\ ret.local_price_raw > 0
        /\ \E t \in TiersFor(args.pair[2], ret.local_price_raw) : t > ret.local_price_raw)
    => ret.visibility_price > ret.local_price_raw

\* C2: the visible price equals the raw price only when a vendor price exists for
\* the tier and currency and equals the raw price; whenever the resolver is called
\* the visible price is strictly greater, also for a raw price above every tier.
C2_EqualOnlyByVendorPrice ==
    (Converted /\ ret.local_price_raw > 0) =>
        /\ ret.snapped # None => ret.visibility_price > ret.local_price_raw
        /\ ret.visibility_price = ret.local_price_raw
               => ret.apple_price = Some(ret.local_price_raw)

\* a vendor price equal to the raw price while a higher tier exists
C2_Witness ==
    /\ Converted /\ ret.local_price_raw > 0
    /\ ret.visibility_price = ret.local_price_raw
    /\ \E t \in TiersFor(args.pair[2], ret.local_price_raw) : t > ret.local_price_raw

Snapped == pc = "snapped" /\ args.price > 0

\* the resolver of the description: the least tier strictly above the price, the
\* maximum tier when there is none
LeastTierAbove(currency, price) ==
    LET tiers == TiersFor(currency, price)
        above == {t \in tiers : t > price}
    IN  IF above = {} THEN CHOOSE t \in tiers : \A u \in tiers : u <= t
        ELSE CHOOSE t \in above : \A u \in above : t <= u

\* C3 as stated: for a raw price > 0 the resolver returns the least tier strictly
\* greater than the raw price (the maximum tier when there is none), so the result
\* is always a member of the currency's tier sequence.
C3_LeastTierAbove ==
    Snapped => ret[1] = LeastTierAbove(args.currency, args.price)

\* C3: for a raw price > 0 the resolver returns a value strictly greater than the
\* raw price; for a raw price of 1 or more it is an amount ending in .99 or .90 at
\* most the accepted increase above the raw price, whatever the tier sequence holds.
C3_NiceNumberAbove ==
    Snapped =>
        /\ ret[1] > args.price
        /\ args.price >= U(1) =>
               /\ Is99Ending(ret[1])
               /\ ret[1] - args.price <= MaxIncrease(args.price)

\* 8.50 USD resolves to 8.99, which is no tier; the least tier above 8.50 is 9.99
C3_Witness ==
    /\ Snapped /\ args.price = C(850) /\ args.currency = "USD"
    /\ ret[1] = C(899)
    /\ ret[1] \notin TiersFor("USD", args.price)
    /\ LeastTierAbove("USD", args.price) = C(999)

\* the pair is a US pair whose raw price is a tier of the USD sequence
ExactUsdTier ==
    /\ Converted /\ args.pair = <<"US", "USD">>
    /\ ret.local_price_raw > 0
    /\ ret.local_price_raw \in TiersFor("USD", ret.local_price_raw)

\* C4 as stated: when the raw price is an exact tier (USD 9.99 for US at rate 1.0)
\* the visible price, userPays and the remittance price all equal the raw price.
C4_ExactTierKept ==
    ExactUsdTier =>
        /\ ret.visibility_price = ret.local_price_raw
        /\ ret.record.User_Pays = ret.local_price_raw
        /\ ret.record.Stash_Price = ret.local_price_raw

\* C4: when the raw price is an exact tier the visible price equals it only if a
\* vendor price equal to it exists; otherwise the visible price is strictly higher
\* (9.99 becomes 10.99 when the resolver is called); for US, userPays and the
\* remittance price equal the visible price in both cases.
C4_ExactTierMovesUp ==
    ExactUsdTier =>
        /\ ret.visibility_price = ret.local_price_raw
               <=> ret.apple_price = Some(ret.local_price_raw)
        /\ (ret.snapped # None /\ ret.local_price_raw = C(999))
               => ret.visibility_price = C(1099)
        /\ ret.record.User_Pays = ret.visibility_price
        /\ ret.record.Stash_Price = ret.visibility_price

\* USD 9.99 for US at rate 1.0 without a vendor price: 10.99 everywhere
C4_Witness ==
    /\ ExactUsdTier /\ args.cost = "9.99" /\ ret.apple_price = None
    /\ ret.visibility_price = C(1099)
    /\ ret.record.User_Pays = C(1099)
    /\ ret.record.Stash_Price = C(1099)

-----------------------------------------------------------------------------
(* Properties of the stability gate (GateSpec) and of the runs (Spec) *)

\* C5 as stated: every record a run finally emits, held ones included, has
\* User_Pays >= Local_Price.
C5_EmittedNotBelowRaw ==
    \A i \in DOMAIN run.stable_price_data :
        run.stable_price_data[i].User_Pays >= run.stable_price_data[i].Local_Price

Gated == pc = "gated"

NewPrice == args.new_price_data.User_Pays

HasPrevious == GateKey \in DOMAIN args.existing_prices

PreviousPrice == args.existing_prices[GateKey]

\* the relative increase from prev to new exceeds the threshold
RisesOverThreshold(prev, new) == 100 * (new - prev) > PRICE_CHANGE_THRESHOLD * prev

C7_AdoptWithoutValidPrevious ==
    Gated =>
        /\ ~HasPrevious => ret.was_updated
        /\ (HasPrevious /\ (NewPrice <= 0 \/ PreviousPrice <= 0)) => ret.was_updated
        /\ ~ret.was_updated => (HasPrevious /\ NewPrice > 0 /\ PreviousPrice > 0)

\* a previous price of 0 and a new price above it: adopted though the plain
\* comparison finds no rise over the threshold
C7_Witness ==
    /\ Gated /\ HasPrevious /\ PreviousPrice <= 0 /\ NewPrice >= PreviousPrice
    /\ ~RisesOverThreshold(PreviousPrice, NewPrice)
    /\ ret.was_updated

OtherFields == DOMAIN args.new_price_data \ {"User_Pays"}

Allowed(prev, new) == new <= prev \/ RisesOverThreshold(prev, new)

-----------------------------------------------------------------------------
(* Tax, fees and USD amounts (RevenueSpec) *)

Computed == pc = "computed"

Inclusive == is_vat_inclusive(args.country)

\* the country's rate as the factor 1 + rate
OnePlusRate == Rat(100 + get_tax_rate(args.country), 100)

\* the rate the snapshot gives for the pair's currency
SnapshotRate == get_rate("EUR", RevenueSnapshot)

\* C11: in a VAT-inclusive country netBeforeFees = visiblePrice / (1 + rate),
\* vatAmount = visiblePrice - netBeforeFees and userPays = visiblePrice; in every
\* other country netBeforeFees = visiblePrice, vatAmount = visiblePrice * rate and
\* userPays = visiblePrice + vatAmount; no country is in both classes.
C11_TaxCases ==
    Computed =>
        /\ Inclusive =>
              /\ RMul(ret.net_before_fees, OnePlusRate) = Whole(args.price)
              /\ ret.vat_amount = RSub(Whole(args.price), ret.net_before_fees)
              /\ ret.user_pays = Whole(args.price)
        /\ ~Inclusive =>
              /\ ret.net_before_fees = Whole(args.price)
              /\ ret.vat_amount = Rat(args.price * get_tax_rate(args.country), 100)
              /\ ret.user_pays = RAdd(Whole(args.price), ret.vat_amount)
        /\ VAT_INCLUSIVE_COUNTRIES \cap VAT_EXCLUSIVE_COUNTRIES = {}

\* a VAT-inclusive country with a positive rate: part of the price is tax
C11_Witness ==
    /\ Computed /\ Inclusive /\ get_tax_rate(args.country) > 0
    /\ args.price > 0 /\ ret.vat_amount.n > 0
    /\ ret.net_before_fees # Whole(args.price)

\* C12: the remittance price is userPays / (1 + rate) in a processor-pre-tax
\* country that is VAT-inclusive (BR: 10.00 gives 10.00 / 1.17) and userPays in
\* every other country.
C12_RemittancePrice ==
    Computed =>
        /\ ret.stash_price =
              IF Upper(args.country) \in STASH_PRE_TAX_COUNTRIES /\ Inclusive
              THEN RDiv(ret.user_pays, OnePlusRate) ELSE ret.user_pays
        /\ (args.country = "BR" /\ args.price = U(10))
              => ret.stash_price = Rat(U(10) * 100, 117)
        /\ args.country \in {"US", "CA"} => ret.stash_price = Whole(args.price)

\* BR at 10.00: the tax is taken back out of what the user pays
C12_Witness ==
    /\ Computed /\ args.country = "BR" /\ args.price = U(10)
    /\ ret.user_pays = Whole(U(10)) /\ ret.stash_price # ret.user_pays

\* C13 as stated: netUsd = grossUsd - feeUsd for every country.
C13_NetIsGrossLessFee ==
    Computed => ret.net_usd = RSub(ret.gross_usd, ret.stash_fee_usd)

\* C13: netUsd is the net revenue (netBeforeFees - feeLocal) in USD, that is
\* grossUsd less the tax contained in the visible price less feeUsd; it equals
\* grossUsd - feeUsd exactly when the visible price contains no tax.
C13_NetIsGrossLessTaxAndFee ==
    Computed =>
        /\ ret.net_usd =
              RSub(RSub(ret.gross_usd,
                        IF Inclusive THEN RDiv(ret.vat_amount, SnapshotRate)
                        ELSE Whole(0)),
                   ret.stash_fee_usd)
        /\ (ret.net_usd = RSub(ret.gross_usd, ret.stash_fee_usd))
              <=> (~Inclusive \/ get_tax_rate(args.country) = 0 \/ args.price = 0)

\* a VAT-inclusive country with a positive rate: netUsd is below grossUsd - feeUsd
C13_Witness ==
    /\ Computed /\ Inclusive /\ get_tax_rate(args.country) > 0 /\ args.price > 0
    /\ RSub(RSub(ret.gross_usd, ret.stash_fee_usd), ret.net_usd).n > 0

\* C14: feeLocal = netBeforeFees * feePct + feeFixed, netRevenueLocal =
\* netBeforeFees - feeLocal, and grossUsd, feeUsd and netUsd are the local figures
\* divided by the rate the snapshot gives for the currency, the rate by which
\* the forward conversion multiplies.
C14_FeeOnNetSameRate ==
    Computed =>
        /\ ret.stash_fee_local =
              RAdd(RMul(ret.net_before_fees, Rat(args.cfg.STASH_FEE_PERCENT, 100)),
                   Whole(args.cfg.STASH_FIXED_FEE))
        /\ ret.net_revenue_local = RSub(ret.net_before_fees, ret.stash_fee_local)
        /\ RMul(ret.gross_usd, SnapshotRate) = Whole(args.price)
        /\ RMul(ret.stash_fee_usd, SnapshotRate) = ret.stash_fee_local
        /\ RMul(ret.net_usd, SnapshotRate) = ret.net_revenue_local
        /\ Whole(convert_usd_to_currency(U(100), "EUR", RevenueSnapshot))
              = RMul(Whole(U(100)), SnapshotRate)

\* a percentage and a fixed fee, in a VAT-inclusive country, at a rate other than 1
C14_Witness ==
    /\ Computed /\ args.quoted /\ args.price > 0
    /\ args.cfg.STASH_FEE_PERCENT > 0 /\ args.cfg.STASH_FIXED_FEE > 0
    /\ Inclusive /\ get_tax_rate(args.country) > 0
    /\ ret.stash_fee_usd.n > 0 /\ ret.stash_fee_usd # ret.stash_fee_local

\* the country is in no tax table
UnknownCountry ==
    Upper(args.country) \notin
        (DOMAIN TAX_RATES \cup VAT_INCLUSIVE_COUNTRIES \cup VAT_EXCLUSIVE_COUNTRIES
         \cup STASH_PRE_TAX_COUNTRIES)

\* C16: for a country in no tax table vatAmount = 0, netBeforeFees = visiblePrice,
\* userPays = visiblePrice and remittancePrice = userPays.
C16_UnknownCountryDefaults ==
    (Computed /\ UnknownCountry) =>
        /\ ret.vat_rate = 0
        /\ ret.vat_amount = Whole(0)
        /\ ret.net_before_fees = Whole(args.price)
        /\ ret.user_pays = Whole(args.price)
        /\ ret.stash_price = ret.user_pays

\* the amounts of a positive price in a country of no table
C16_Witness ==
    /\ Computed /\ UnknownCountry /\ args.price > 0
    /\ ret.user_pays = Whole(args.price)

-----------------------------------------------------------------------------
(* The sign of the tax (ConvertSpec) *)

\* C15: vatAmount >= 0 in every emitted record, for known and unknown countries
\* and for every cost the pipeline accepts, a cost of zero or below included.
C15_VatNotNegative ==
    Converted => ret.record.VAT_Amount >= 0

\* a record for a negative cost in a VAT-inclusive country with a positive rate
C15_Witness ==
    /\ Converted /\ ParseFloat(args.cost)[1] < 0 /\ ret.local_price_raw < 0
    /\ is_vat_inclusive(args.pair[1]) /\ get_tax_rate(args.pair[1]) > 0
    /\ ret.record.VAT_Amount > 0

-----------------------------------------------------------------------------
(* The tier catalog (TierSpec) *)

StrictlyIncreasing(seq) == \A i \in 1..(Len(seq) - 1) : seq[i] < seq[i + 1]

\* C17: for every currency and every reference price, absent, zero or below, or
\* positive however small or large, the tier sequence is non-empty and strictly
\* increasing.
C17_TiersNonEmptyIncreasing ==
    pc = "tiers" => (Len(ret) > 0 /\ StrictlyIncreasing(ret))

\* the currencies whose table is written out in TIER_DEFINITIONS
CuratedCurrencies == DOMAIN TIER_DEFINITIONS \ {"JPY", "ILS", "IDR"}

\* the sequence synthesized for a reference price
SynthesizedFor(reference_price) ==
    LET max_price == RMul(reference_price[1], Whole(200))
    IN  generate_granular_tiers(max_price.n \div max_price.d)

PositiveReference == args.reference_price # None /\ args.reference_price[1].n > 0

\* C18 as stated: a currency with a curated table gets that table whatever the
\* reference price; any other currency gets the sequence synthesized for a
\* positive reference price, and the USD table without one.
C18_CuratedElseReferenceElseUsd ==
    pc = "tiers" =>
        ret = IF Upper(args.currency) \in CuratedCurrencies
              THEN TIER_DEFINITIONS[Upper(args.currency)]
              ELSE IF PositiveReference THEN SynthesizedFor(args.reference_price)
              ELSE TIER_DEFINITIONS["USD"]

\* C18: a currency with an entry in TIER_DEFINITIONS, written out or synthesized
\* when the module is loaded (JPY, ILS, IDR), gets that entry whatever the
\* reference price; any other currency gets the sequence synthesized for a
\* positive reference price, and the USD table without one.
C18_TableElseReferenceElseUsd ==
    pc = "tiers" =>
        /\ ret = IF Upper(args.currency) \in DOMAIN TIER_DEFINITIONS
                 THEN TIER_DEFINITIONS[Upper(args.currency)]
                 ELSE IF PositiveReference THEN SynthesizedFor(args.reference_price)
                 ELSE TIER_DEFINITIONS["USD"]
        /\ Upper(args.currency) = "JPY" => ret = generate_granular_tiers(U(230000))

\* a table synthesized at load time is returned although a positive reference
\* price would synthesize another sequence
C18_Witness ==
    /\ pc = "tiers" /\ args.currency = "JPY" /\ PositiveReference
    /\ ret = TIER_DEFINITIONS["JPY"]
    /\ ret # SynthesizedFor(args.reference_price)

\* C19: the generation loop ends within the safety bound of iterations for every
\* maximum price, and the tiers returned are free of duplicates and strictly
\* increasing.
C19_SynthesisTerminates ==
    pc = "generated" =>
        /\ ret.loop.iterations <= max_iterations
        /\ ~LoopGo(Branch(args.max_price), args.max_price, ret.loop)
        /\ Len(ret.loop.tiers) = ret.loop.iterations
        /\ StrictlyIncreasing(ret.tiers)
        /\ Cardinality(SeqRange(ret.tiers)) = Len(ret.tiers)
        /\ SeqRange(ret.tiers) = SeqRange(ret.loop.tiers)

\* a loop that ran up to its price cap and produced more than a hundred tiers
C19_Witness ==
    /\ pc = "generated" /\ ret.loop.iterations > 100
    /\ ret.loop.current > BranchCap(Branch(args.max_price))
    /\ Len(ret.tiers) > 100

-----------------------------------------------------------------------------
(* The batch (BatchSpec) *)

\* a SKU whose pairs fail: float() raises on its Cost
FailingSku(sku) == ParseFloat(sku.Cost) = None

SucceedingSku(sku) == ~FailingSku(sku)

ProcessedCountries ==
    {i \in DOMAIN COUNTRY_CURRENCY_MAP : COUNTRY_CURRENCY_MAP[i][1] \notin args.excluded}

\* C20: the pairs of a SKU whose Cost cannot be parsed are dropped and nothing
\* else: the batch yields one record for every other pair, and these are the
\* records, in the same order, of the batch without the failing SKUs.
C20_FailingPairOnlyDropped ==
    pc = "batched" =>
        /\ Len(ret) = Len(SelectSeq(args.skus, SucceedingSku)) * Cardinality(ProcessedCountries)
        /\ ret = process_all_skus_with_rates(SelectSeq(args.skus, SucceedingSku),
                                             COUNTRY_CURRENCY_MAP,
                                             args.exchange_rates_dict, applePricingMap,
                                             args.excluded)

\* a failing SKU is read before a succeeding one, whose records are there
C20_Witness ==
    /\ pc = "batched" /\ Len(args.skus) >= 2
    /\ FailingSku(args.skus[1]) /\ SucceedingSku(args.skus[Len(args.skus)])
    /\ Len(ret) >= Cardinality(ProcessedCountries)
    /\ ret[Len(ret)].AppleStoreSku = args.skus[Len(args.skus)].AppleStoreSku

\* the entries of the SKU list with a numeric Cost, and the entries of the map
\* that are not excluded, both in their order
WellFormedSkus == SelectSeq(args.skus, SucceedingSku)

IncludedEntry(entry) == entry[1] \notin args.excluded

IncludedCountries == SelectSeq(COUNTRY_CURRENCY_MAP, IncludedEntry)

\* C21: the output holds exactly one record for each entry of the SKU list with
\* a numeric Cost and each country of the map outside the exclusion list, SKU by
\* SKU in map order, and no record for an excluded country or any other pair.
C21_OneRecordPerPair ==
    pc = "batched" =>
        /\ Len(ret) = Len(WellFormedSkus) * Len(IncludedCountries)
        /\ \A k \in DOMAIN ret :
              /\ ret[k].AppleStoreSku =
                     WellFormedSkus[((k - 1) \div Len(IncludedCountries)) + 1].AppleStoreSku
              /\ ret[k].Country = IncludedCountries[((k - 1) % Len(IncludedCountries)) + 1][1]
              /\ ret[k].Currency = IncludedCountries[((k - 1) % Len(IncludedCountries)) + 1][2]
              /\ ret[k].Country \notin args.excluded

\* a batch with a failing SKU and an excluded country of the map that still
\* yields records
C21_Witness ==
    /\ pc = "batched" /\ ret # << >>
    /\ \E i \in DOMAIN args.skus : FailingSku(args.skus[i])
    /\ Len(IncludedCountries) < Len(COUNTRY_CURRENCY_MAP)
    /\ Len(ret) = Len(WellFormedSkus) * Len(IncludedCountries)

-----------------------------------------------------------------------------
(* Runs without records (Spec) *)

\* an invocation has answered
Ran == run.response.statusCode # 0

\* C22 as stated: a run with no SKUs is answered with status 200 and count 0.
C22_NoSkusIsSuccess ==
    (Ran /\ run.skus = << >>) =>
        (run.response.statusCode = 200 /\ run.response.count = 0)

\* C22: a run that has its rates and generates no price records, for want of
\* SKUs or because every pair failed, answers 200 "No price data generated"
\* with count 0; without rates the run answers 500 whatever the SKUs; in both
\* cases the stored price matrix and the rate log are left as they were.
C22_ZeroOutputRun ==
    [][(run'.skus = << >> => run'.price_data = << >>)
       /\ (run'.price_data = << >> =>
              /\ UNCHANGED <<priceMatrix, ratesLog, published>>
              /\ ~run'.wrote
              /\ run'.response.count = 0
              /\ IF run'.exchange_rates_dict = EmptyDict
                 THEN /\ run'.response.statusCode = 500
                      /\ read_exchange_rates_from_sheet(ratesLog) = EmptyDict
                 ELSE /\ run'.response.statusCode = 200
                      /\ run'.response.message = "No price data generated")]_vars

\* a zero-count success after an earlier run has filled the matrix and the log
C22_Witness ==
    /\ run.response = Response(200, "No price data generated", 0)
    /\ run.price_data = << >>
    /\ priceMatrix # << >> /\ ratesLog # << >>

-----------------------------------------------------------------------------
(* The round trip (RoundTripSpec) *)

RoundTripRate == get_rate(args.currency, args.rates)

\* |a - b| as a fraction
Distance(a, b) == IF RSub(a, b).n < 0 THEN RSub(b, a) ELSE RSub(a, b)

-----------------------------------------------------------------------------
(* A currency without a rate (ConvertSpec) *)

\* the snapshot has no entry for the pair's currency and the Cost is a number
Unquoted == pc = "converted" /\ ~args.quoted /\ ParseFloat(args.cost) # None

\* C24: without an entry for the currency the pair is still converted: the raw
\* local price is the USD base price, and the visible price converts back to USD
\* at 1.0 as well.
C24_MissingRateIsOne ==
    Unquoted =>
        /\ ~ret.failed
        /\ ret.local_price_raw = ParseFloat(args.cost)[1]
        /\ ret.record.Local_Price = ret.record.Price_Tier
        /\ ret.record.Gross_USD = RRound(Whole(ret.visibility_price), Cent)

\* a record for a currency other than USD without a rate
C24_Witness ==
    /\ Unquoted /\ args.pair[2] = "BRL" /\ ~ret.failed
    /\ ret.record.Local_Price = U(25) /\ ret.record.Gross_USD > U(25)

-----------------------------------------------------------------------------
(* The size of the step up (SnapSpec) *)

\* C25: in mode "up" the resolver returns, for every price > 0 and every
\* currency, a value above the price by at most 1 unit when the price is below
\* 10 and by at most 2 units otherwise.
C25_SnapUpSlightlyHigher ==
    Snapped =>
        /\ ret[1] > args.price
        /\ ret[1] - args.price <= IF args.price < U(10) THEN U(1) ELSE U(2)

\* a price that is an amount ending in .99 moves up by a whole unit
C25_Witness ==
    /\ Snapped /\ args.price >= U(10) /\ args.mode = Some("up")
    /\ ret[1] - args.price = U(1)

-----------------------------------------------------------------------------
(* fetch_rates (FetchSpec) *)

Fetched == pc = "fetched"

\* the answer to attempt i is dated before today
Stale(i) == args.responses[i].ok /\ args.responses[i].age >= 1

\* attempt i is made: no attempt before it failed to be followed by another
Attempted(i) ==
    /\ i \in 1..args.max_retries
    /\ \A j \in 1..(i - 1) : ~args.responses[j].ok \/ Stale(j)

\* C26: fetch_rates makes at most max_retries requests; an answer dated today or
\* later is returned at once; an answer dated before today is followed by another
\* attempt, except on the last attempt, where it is returned; every map returned
\* gives USD the rate 1.0.
C26_FetchAttempts ==
    Fetched =>
        /\ ret.requests <= args.max_retries
        /\ \A i \in 1..args.max_retries :
              /\ (Attempted(i) /\ args.responses[i].ok /\ ~Stale(i)) =>
                     /\ ret.requests = i /\ ~ret.raised
                     /\ ret.date = args.responses[i].age
                     /\ \A c \in DOMAIN args.responses[i].rates :
                            ret.rates[c] = args.responses[i].rates[c]
              /\ (Attempted(i) /\ Stale(i)) =>
                     IF i < args.max_retries THEN ret.requests > i
                     ELSE /\ ret.requests = i /\ ~ret.raised
                          /\ ret.date = args.responses[i].age
                          /\ \A c \in DOMAIN args.responses[i].rates :
                                 ret.rates[c] = args.responses[i].rates[c]
        /\ ~ret.raised => ("USD" \in DOMAIN ret.rates /\ ret.rates["USD"] = Whole(1))

\* a stale answer returned by the last attempt after a stale one was passed over
C26_Witness ==
    /\ Fetched /\ args.max_retries = 3 /\ ret.requests = 3 /\ ~ret.raised
    /\ Stale(1) /\ Stale(3) /\ ret.date = args.responses[3].age
    /\ ret.rates["USD"] = Whole(1)

\* C27 as stated: fetch_rates raises only when every attempt failed and the cache
\* is empty, and returns a map whenever an attempt was answered or the cache
\* holds rates.
C27_RaisesOnlyWithoutAnyAnswer ==
    (Fetched /\ args.max_retries >= 1) =>
        /\ ret.raised =>
               /\ \A i \in 1..args.max_retries : ~args.responses[i].ok
               /\ args.cache = EmptyDict
        /\ ((\E i \in 1..args.max_retries : Attempted(i) /\ args.responses[i].ok)
               \/ args.cache # EmptyDict) => ~ret.raised

\* the last attempt is made and its request fails
LastAttemptFails ==
    /\ Attempted(args.max_retries)
    /\ ~args.responses[args.max_retries].ok

\* C27: with at least one attempt allowed, fetch_rates raises exactly when the
\* request of the last attempt fails and the cache is empty, whatever the earlier
\* attempts were answered; when the last request fails and the cache holds rates
\* it returns the cached map with the greatest date.
C27_RaisesWhenLastFailsUncached ==
    (Fetched /\ args.max_retries >= 1) =>
        /\ ret.raised <=> (LastAttemptFails /\ args.cache = EmptyDict)
        /\ (LastAttemptFails /\ args.cache # EmptyDict) =>
               /\ ret.date \in DOMAIN args.cache
               /\ \A d \in DOMAIN args.cache : ret.date <= d
               /\ ret.rates = args.cache[ret.date]

\* an answer dated before today is passed over, the later requests fail, and
\* nothing is cached: the call raises although an attempt was answered
C27_Witness ==
    /\ Fetched /\ args.max_retries = 3 /\ ret.raised
    /\ Stale(1) /\ ~args.responses[2].ok /\ ~args.responses[3].ok
    /\ args.cache = EmptyDict

-----------------------------------------------------------------------------
(* The published price against the fresh one, run after run (Spec) *)

\* the rows of the last run whose fresh price and previous price are both positive
GatedRows ==
    {i \in DOMAIN run.stable_price_data :
        /\ LookupKey(run.price_data[i].Country, run.price_data[i].AppleStoreSku)
               \in DOMAIN run.existing_prices
        /\ run.existing_prices[LookupKey(run.price_data[i].Country,
                                         run.price_data[i].AppleStoreSku)] > 0
        /\ run.price_data[i].User_Pays > 0}

\* C28: after the gate, the final visible price p and the freshly computed price
\* n of a pair with two positive prices satisfy p <= n <= p * (1 + threshold), in
\* every run of a sequence of runs, after holds as after adoptions.
C28_HeldWithinThreshold ==
    run.wrote =>
        \A i \in GatedRows :
            /\ run.stable_price_data[i].User_Pays <= run.price_data[i].User_Pays
            /\ 100 * run.price_data[i].User_Pays
                   <= (100 + PRICE_CHANGE_THRESHOLD) * run.stable_price_data[i].User_Pays

\* a held price below the fresh one, in a run that found its own kind of row in
\* the matrix an earlier run wrote
C28_Witness ==
    /\ run.wrote
    /\ \E i \in GatedRows :
           /\ ~run.was_updated[i]
           /\ run.stable_price_data[i].User_Pays < run.price_data[i].User_Pays
           /\ run.stable_price_data[i].User_Pays
                  = run.existing_prices[LookupKey(run.price_data[i].Country,
                                                  run.price_data[i].AppleStoreSku)]

-----------------------------------------------------------------------------
(* The repetition of a run (RerunSpec) *)

\* C29: a run repeated on the same SKUs, countries and rates, with the rows of
\* the first run as the stored prices, publishes for every pair the visible
\* price the first run published, whether the first run adopted or held it.
C29_RepetitionIsFixedPoint ==
    pc = "repeated" =>
        /\ Len(ret.second) = Len(ret.first)
        /\ \A i \in DOMAIN ret.first :
              /\ ret.second[i].row.User_Pays = ret.first[i].row.User_Pays
              /\ ret.second[i].row = ret.first[i].row

\* the first run held one row below its fresh price and adopted another; the
\* repetition holds them all
C29_Witness ==
    /\ pc = "repeated"
    /\ \E i \in DOMAIN ret.first :
           /\ ~ret.first[i].was_updated
           /\ ret.first[i].row.User_Pays < RowsAt(args.rates)[i].User_Pays
    /\ \E i \in DOMAIN ret.first : ret.first[i].was_updated
    /\ \A i \in DOMAIN ret.second : ~ret.second[i].was_updated

-----------------------------------------------------------------------------
(* The rates of a run and the order of its writes (Spec) *)

\* the valid rates of the latest date in the log, read off the log itself
LatestLogged ==
    IF ratesLog = << >> THEN EmptyDict
    ELSE LET dates == {ratesLog[i].date : i \in DOMAIN ratesLog}
             i == CHOOSE k \in DOMAIN ratesLog : \A d \in dates : ratesLog[k].date <= d
         IN  [c \in {x \in DOMAIN ratesLog[i].rates : ratesLog[i].rates[x].n > 0} |->
                 ratesLog[i].rates[c]]

====
